---------------------------- MODULE Spec2Model ----------------------------
(***************************************************************************)
(* Model of the medical diagnostic agent: the Bayesian diagnostic engine   *)
(* (bayesian_engine.ts) and the main LangGraph workflow (medical_graph.ts, *)
(* chain_of_debate.ts, patient_question_agent.ts, medical_state.ts).       *)
(*                                                                         *)
(* Probabilities and likelihood ratios are exact rationals <<n, d>> in     *)
(* lowest terms with d > 0.  A value whose numerator or denominator would  *)
(* leave the range of MaxInt is the marker NaR; an engine call is only     *)
(* explored when every value it computes is representable.                 *)
(***************************************************************************)
EXTENDS Integers, Sequences, FiniteSets, TLC

VARIABLES
    diagnoses,   \* BayesianDiagnosticEngine.diagnoses: records in Map insertion order
    updates,     \* value returned by the last updateWithEvidence call
    hypothetical, \* hypothetical updates computed by the engine call just made
    calls,       \* number of engine calls made so far
    state,       \* MedicalDiagnosticStateType: the channels of the graph
    pc,          \* the node of the main graph that runs next
    aborted,     \* an error has propagated out of the workflow
    recommendations \* the last diagnostic_test_selector call: its arguments and output

vars == <<diagnoses, updates, hypothetical, calls, state, pc, aborted, recommendations>>

engineVars == <<diagnoses, updates, hypothetical, calls>>
workflowVars == <<state, pc, aborted>>
toolVars == <<recommendations>>

--------------------------------------------------------------------------
(* Bounds *)

MaxInt == 1000000000
MaxCalls == 4

--------------------------------------------------------------------------
(* Exact rational arithmetic *)

NaR == <<0, 0>>

Abs(x) == IF x < 0 THEN 0 - x ELSE x

RECURSIVE GCD(_, _)
GCD(a, b) == IF b = 0 THEN a ELSE GCD(b, a % b)

Fits(x, y) == x = 0 \/ y = 0 \/ Abs(x) <= MaxInt \div Abs(y)

Rat(n, d) == LET g == GCD(Abs(n), d) IN <<n \div g, d \div g>>

RMul(p, q) ==
    IF p = NaR \/ q = NaR THEN NaR
    ELSE LET g1 == GCD(Abs(p[1]), q[2])
             g2 == GCD(Abs(q[1]), p[2])
             n1 == p[1] \div g1
             n2 == q[1] \div g2
             d1 == p[2] \div g2
             d2 == q[2] \div g1
         IN  IF Fits(n1, n2) /\ Fits(d1, d2) THEN <<n1 * n2, d1 * d2>> ELSE NaR

RAdd(p, q) ==
    IF p = NaR \/ q = NaR THEN NaR
    ELSE LET g  == GCD(p[2], q[2])
             m1 == q[2] \div g
             m2 == p[2] \div g
         IN  IF Fits(p[1], m1) /\ Fits(q[1], m2) /\ Fits(p[2], m1)
             THEN LET n == p[1] * m1 + q[1] * m2
                  IN  IF Abs(n) <= MaxInt THEN Rat(n, p[2] * m1) ELSE NaR
             ELSE NaR

RNeg(p) == IF p = NaR THEN NaR ELSE <<0 - p[1], p[2]>>

RSub(p, q) == RAdd(p, RNeg(q))

\* p / q for q > 0
RDiv(p, q) == IF p = NaR \/ q = NaR \/ q[1] <= 0 THEN NaR ELSE RMul(p, <<q[2], q[1]>>)

\* p < q; only meaningful when q - p is representable
RLess(p, q) == RSub(q, p)[1] > 0

RLeq(p, q) == ~RLess(q, p)

Comparable(p, q) == RSub(q, p) # NaR

RMax(p, q) == IF ~Comparable(p, q) THEN NaR ELSE IF RLess(p, q) THEN q ELSE p

RMin(p, q) == IF ~Comparable(p, q) THEN NaR ELSE IF RLess(q, p) THEN q ELSE p

One == <<1, 1>>
Zero == <<0, 1>>

\* a / b < c / d for a, c >= 0 and b, d > 0, by comparing continued fractions;
\* no intermediate value exceeds the operands
RECURSIVE FracLess(_, _, _, _)
FracLess(a, b, c, d) ==
    IF a \div b # c \div d THEN a \div b < c \div d
    ELSE IF c % d = 0 THEN FALSE
    ELSE IF a % b = 0 THEN TRUE
    ELSE FracLess(d, c % d, b, a % b)

\* p < q for representable p, q >= 0, without overflow
Below(p, q) == FracLess(p[1], p[2], q[1], q[2])

--------------------------------------------------------------------------
(* Bayesian diagnostic engine *)

PMin == <<1, 1000>>      \* 0.001
PMax == <<999, 1000>>    \* 0.999
Headroom == <<19, 20>>   \* 0.95

Conditions == {"myocardial_infarction", "pneumonia", "gastroenteritis"}

\* priors offered to initializeDiagnosis, all inside (0, 1)
Priors == {<<1, 50>>, <<9, 10>>}

Evidence(name, value, confidence) ==
    [name |-> name, value |-> value, confidence |-> confidence]

\* evidence offered to updateWithEvidence; rash is in no likelihood table
EvidenceSet ==
    {Evidence("troponin_elevated", TRUE, One),
     Evidence("troponin_elevated", TRUE, <<19, 20>>),
     Evidence("fever", TRUE, One),
     Evidence("fever", FALSE, One),
     Evidence("rash", TRUE, One)}

\* generateEvidenceKey: a boolean true keeps the name, false prefixes no_
generateEvidenceKey(evidence) ==
    IF evidence.value = TRUE THEN <<evidence.name>>
    ELSE IF evidence.value = FALSE THEN <<"no", evidence.name>>
    ELSE <<evidence.name, evidence.value>>

\* initializeEvidenceBase, restricted to the evidence names of the model
evidenceBase ==
    [c \in Conditions |->
        CASE c = "myocardial_infarction" ->
                (<<"troponin_elevated">> :> <<20, 1>>) @@ (<<"fever">> :> <<3, 10>>)
                @@ (<<"age_over_65">> :> <<5, 2>>) @@ (<<"diaphoresis">> :> <<3, 1>>)
          [] c = "pneumonia" ->
                (<<"fever">> :> <<4, 1>>) @@ (<<"no", "fever">> :> <<3, 10>>)
                @@ (<<"troponin_elevated">> :> <<1, 10>>)
                @@ (<<"chest_xray_infiltrate">> :> <<15, 1>>)
          [] c = "gastroenteritis" ->
                (<<"fever">> :> <<2, 1>>) @@ (<<"troponin_elevated">> :> <<1, 20>>)]

\* a ratio that ignores the confidence of the evidence
calculateLikelihoodRatioUnadjusted(condition, evidence) ==
    IF condition \notin DOMAIN evidenceBase
       \/ generateEvidenceKey(evidence) \notin DOMAIN evidenceBase[condition]
    THEN One
    ELSE evidenceBase[condition][generateEvidenceKey(evidence)]

calculateLikelihoodRatio(condition, evidence) ==
    LET evidenceKey == generateEvidenceKey(evidence)
    IN  IF condition \notin DOMAIN evidenceBase
           \/ evidenceKey \notin DOMAIN evidenceBase[condition]
        THEN One
        ELSE RAdd(One, RMul(RSub(evidenceBase[condition][evidenceKey], One),
                            evidence.confidence))

\* no clamp
ClampNone(p) == p

Clamp(p) == RMin(RMax(p, PMin), PMax)

\* an update that does not log the evidence
UpdateOneUnlogged(diagnosis, evidence) ==
    LET likelihoodRatio == calculateLikelihoodRatio(diagnosis.condition, evidence)
        oldProbability == diagnosis.posteriorProbability
        oldOdds == RDiv(oldProbability, RSub(One, oldProbability))
        newOdds == RMul(likelihoodRatio, oldOdds)
        newProbability == RDiv(newOdds, RAdd(One, newOdds))
    IN  [diagnosis EXCEPT !.posteriorProbability = Clamp(newProbability),
                          !.likelihood = RMul(@, likelihoodRatio)]

\* an update that leaves the cumulative likelihood alone
UpdateOneLikelihoodKept(diagnosis, evidence) ==
    LET likelihoodRatio == calculateLikelihoodRatio(diagnosis.condition, evidence)
        oldProbability == diagnosis.posteriorProbability
        oldOdds == RDiv(oldProbability, RSub(One, oldProbability))
        newOdds == RMul(likelihoodRatio, oldOdds)
        newProbability == RDiv(newOdds, RAdd(One, newOdds))
    IN  [diagnosis EXCEPT !.posteriorProbability = Clamp(newProbability),
                          !.evidence = Append(@, evidence)]

\* the body of the loop of updateWithEvidence for one diagnosis
UpdateOne(diagnosis, evidence) ==
    LET likelihoodRatio == calculateLikelihoodRatio(diagnosis.condition, evidence)
        oldProbability == diagnosis.posteriorProbability
        oldOdds == RDiv(oldProbability, RSub(One, oldProbability))
        newOdds == RMul(likelihoodRatio, oldOdds)
        newProbability == RDiv(newOdds, RAdd(One, newOdds))
    IN  [diagnosis EXCEPT !.posteriorProbability = Clamp(newProbability),
                          !.evidence = Append(@, evidence),
                          !.likelihood = RMul(@, likelihoodRatio)]

RECURSIVE SumPosterior(_)
SumPosterior(ds) ==
    IF ds = <<>> THEN Zero
    ELSE RAdd(SumPosterior(SubSeq(ds, 1, Len(ds) - 1)), ds[Len(ds)].posteriorProbability)

\* a normalization that never rescales
normalizeProbabilitiesNever(ds) == ds

normalizeProbabilities(ds) ==
    LET totalProbability == SumPosterior(ds)
    IN  IF totalProbability = NaR
        THEN [i \in 1..Len(ds) |-> [ds[i] EXCEPT !.posteriorProbability = NaR]]
        ELSE IF RLess(One, totalProbability)
        THEN LET normalizationFactor == RDiv(Headroom, totalProbability)
             IN  [i \in 1..Len(ds) |->
                    [ds[i] EXCEPT !.posteriorProbability = RMul(@, normalizationFactor)]]
        ELSE ds

\* the sequence as an explicit tuple
Tuple(seq) == SubSeq(seq, 1, Len(seq))

\* the store after updateWithEvidence(evidence)
UpdatedStore(ds, evidence) ==
    Tuple(normalizeProbabilities(Tuple([i \in 1..Len(ds) |-> UpdateOne(ds[i], evidence)])))

\* the BayesianUpdate records returned by updateWithEvidence(evidence)
UpdateRecords(ds, evidence) ==
    [i \in 1..Len(ds) |->
        [diagnosis |-> ds[i].condition,
         oldProbability |-> ds[i].posteriorProbability,
         newProbability |-> UpdateOne(ds[i], evidence).posteriorProbability,
         evidence |-> evidence,
         likelihoodRatio |-> calculateLikelihoodRatio(ds[i].condition, evidence)]]

Representable(ds) ==
    \A i \in 1..Len(ds) : ds[i].posteriorProbability # NaR /\ ds[i].likelihood # NaR

IndexOf(ds, condition) ==
    IF \E i \in 1..Len(ds) : ds[i].condition = condition
    THEN CHOOSE i \in 1..Len(ds) : ds[i].condition = condition
    ELSE 0

NewDiagnosis(condition, priorProbability) ==
    [condition |-> condition,
     priorProbability |-> priorProbability,
     posteriorProbability |-> priorProbability,
     likelihood |-> One,
     evidence |-> <<>>]

\* Map.set keeps the position of a key that is already present
Initialized(ds, condition, priorProbability) ==
    IF IndexOf(ds, condition) = 0
    THEN Append(ds, NewDiagnosis(condition, priorProbability))
    ELSE [ds EXCEPT ![IndexOf(ds, condition)] = NewDiagnosis(condition, priorProbability)]

initializeDiagnosis(condition, priorProbability) ==
    /\ calls < MaxCalls
    /\ calls' = calls + 1
    /\ diagnoses' = Initialized(diagnoses, condition, priorProbability)
    /\ hypothetical' = <<>>
    /\ UNCHANGED <<updates, workflowVars, toolVars>>

updateWithEvidence(evidence) ==
    /\ calls < MaxCalls
    /\ calls' = calls + 1
    /\ \E store \in {UpdatedStore(diagnoses, evidence)} :
          Representable(store) /\ diagnoses' = store
    /\ updates' = UpdateRecords(diagnoses, evidence)
    /\ hypothetical' = <<>>
    /\ UNCHANGED <<workflowVars, toolVars>>

\* a ranking that keeps the insertion order
getRankedDiagnosesUnsorted(ds) == ds

\* Array.from(values).sort((a, b) => b.posteriorProbability - a.posteriorProbability):
\* descending by posterior, equal posteriors keep the insertion order
getRankedDiagnoses(ds) ==
    LET n == Len(ds)
        rank(i) == 1 + Cardinality({j \in 1..n :
                          \/ Below(ds[i].posteriorProbability, ds[j].posteriorProbability)
                          \/ /\ ds[j].posteriorProbability = ds[i].posteriorProbability
                             /\ j < i})
    IN  [p \in 1..n |-> ds[CHOOSE i \in 1..n : rank(i) = p]]

\* Map.get: the set holding the record of the condition, empty for undefined
getDiagnosis(ds, condition) ==
    {ds[i] : i \in {j \in 1..Len(ds) : ds[j].condition = condition}}

\* a reset that restores every record to its prior instead of clearing the store
resetToPriors ==
    /\ calls < MaxCalls
    /\ calls' = calls + 1
    /\ diagnoses' = [i \in 1..Len(diagnoses) |->
                        NewDiagnosis(diagnoses[i].condition, diagnoses[i].priorProbability)]
    /\ hypothetical' = <<>>
    /\ UNCHANGED <<updates, workflowVars, toolVars>>

\* a computation of the hypothetical updates that stores them as well
calculateHypotheticalUpdatesStored(ds, evidence) ==
    [store |-> UpdatedStore(ds, evidence), updates |-> UpdateRecords(ds, evidence)]

\* the store calculateHypotheticalUpdates leaves and the records it returns
calculateHypotheticalUpdates(ds, evidence) ==
    [store |-> ds, updates |-> UpdateRecords(ds, evidence)]

\* evidence the callers ask the information gain of; the value is overwritten
PotentialEvidence ==
    {Evidence("troponin_elevated", TRUE, One),
     Evidence("rash", TRUE, One)}

\* the two outcomes are tried in order, each on the store the previous left;
\* the number returned is computed from the stored posteriors and these records
calculateInformationGain(potentialEvidence) ==
    /\ calls < MaxCalls
    /\ calls' = calls + 1
    /\ LET afterTrue == calculateHypotheticalUpdates(
                            diagnoses, [potentialEvidence EXCEPT !.value = TRUE])
           afterFalse == calculateHypotheticalUpdates(
                            afterTrue.store, [potentialEvidence EXCEPT !.value = FALSE])
       IN  /\ Representable(afterFalse.store)
           /\ \A i \in 1..Len(diagnoses) :
                  /\ afterTrue.updates[i].newProbability # NaR
                  /\ afterFalse.updates[i].newProbability # NaR
           /\ diagnoses' = afterFalse.store
           /\ hypothetical' = <<afterTrue.updates, afterFalse.updates>>
    /\ UNCHANGED <<updates, workflowVars, toolVars>>

--------------------------------------------------------------------------
(* PhysicianAgent.prepareBayesianAnalysis on the agent's engine *)

\* condition.toLowerCase().replace(/\s+/g, '_') on the names of the model
ConditionKey ==
    ("Myocardial Infarction" :> "myocardial_infarction")
    @@ ("myocardial infarction" :> "myocardial_infarction")
    @@ ("Pneumonia" :> "pneumonia")
    @@ ("pneumonia" :> "pneumonia")
    @@ ("Unstable Angina" :> "unstable_angina")

DifferentialDiagnosis(condition, probability) ==
    [condition |-> condition, probability |-> probability]

\* the parts of the case state prepareBayesianAnalysis reads: the differential
\* diagnoses (probability in percent), whether the complaint or history
\* mentions fever, the number of elevated troponin results, and the age;
\* no text mentions crushing chest pain, nausea, cough or shortness of breath
AnalysisState(differentialDiagnoses, mentionsFever, troponinElevated, age) ==
    [differentialDiagnoses |-> differentialDiagnoses, mentionsFever |-> mentionsFever,
     troponinElevated |-> troponinElevated, age |-> age]

NoDifferential == <<>>
AnginaDifferential == <<DifferentialDiagnosis("Unstable Angina", 60)>>
MixedDifferential ==
    <<DifferentialDiagnosis("Pneumonia", 40), DifferentialDiagnosis("Myocardial Infarction", 30)>>
RepeatedDifferential ==
    <<DifferentialDiagnosis("Pneumonia", 40), DifferentialDiagnosis("pneumonia", 10)>>

AnalysisStates ==
    {AnalysisState(NoDifferential, FALSE, 0, 55),
     AnalysisState(NoDifferential, TRUE, 0, 55),
     AnalysisState(NoDifferential, FALSE, 0, 70),
     AnalysisState(AnginaDifferential, FALSE, 0, 55),
     AnalysisState(AnginaDifferential, TRUE, 1, 70),
     AnalysisState(MixedDifferential, FALSE, 0, 55),
     AnalysisState(MixedDifferential, TRUE, 0, 55),
     AnalysisState(MixedDifferential, FALSE, 1, 55),
     AnalysisState(MixedDifferential, FALSE, 0, 70),
     AnalysisState(RepeatedDifferential, FALSE, 0, 55),
     AnalysisState(RepeatedDifferential, TRUE, 0, 55)}

\* the initializeDiagnosis calls, in order
AnalysisPriors(s) ==
    IF Len(s.differentialDiagnoses) > 0
    THEN [i \in 1..Len(s.differentialDiagnoses) |->
            <<ConditionKey[s.differentialDiagnoses[i].condition],
              Rat(s.differentialDiagnoses[i].probability, 100)>>]
    ELSE << <<"myocardial_infarction", <<1, 50>>>>,
            <<"pneumonia", <<1, 20>>>>,
            <<"gastroenteritis", <<3, 20>>>> >>

\* the evidence array, in the order it is pushed
AnalysisEvidence(s) ==
    (IF s.mentionsFever THEN <<Evidence("fever", TRUE, <<9, 10>>)>> ELSE <<>>)
    \o [i \in 1..s.troponinElevated |-> Evidence("troponin_elevated", TRUE, <<19, 20>>)]
    \o (IF s.age >= 65 THEN <<Evidence("age_over_65", TRUE, One)>> ELSE <<>>)

\* the last of the three potentialTests
LastPotentialTest == Evidence("diaphoresis", TRUE, <<4, 5>>)

RECURSIVE InitializeAll(_, _)
InitializeAll(ds, priors) ==
    IF priors = <<>> THEN ds
    ELSE InitializeAll(Initialized(ds, Head(priors)[1], Head(priors)[2]), Tail(priors))

\* the updateWithEvidence calls in order: the store they leave and the value
\* the last of them returned, last when there is none
RECURSIVE UpdateAll(_, _, _)
UpdateAll(ds, last, evidence) ==
    IF evidence = <<>> THEN [store |-> ds, updates |-> last]
    ELSE UpdateAll(Tuple(UpdatedStore(ds, Head(evidence))),
                   Tuple(UpdateRecords(ds, Head(evidence))), Tail(evidence))

\* an analysis that keeps what the store held
AnalysisStartKept(ds) == ds

\* this.bayesianEngine.reset() at the start of the analysis
AnalysisStart(ds) == <<>>

\* the engine when the analysis is written: the store, the value of the last
\* updateWithEvidence call and the hypothetical updates of the last gain
Analysis(ds, last, s) ==
    LET after == UpdateAll(Tuple(InitializeAll(AnalysisStart(ds), AnalysisPriors(s))),
                           last, AnalysisEvidence(s))
        store == after.store
    IN  [store |-> store,
         updates |-> after.updates,
         hypothetical |->
            <<Tuple(calculateHypotheticalUpdates(store, LastPotentialTest).updates),
              Tuple(calculateHypotheticalUpdates(
                       store, [LastPotentialTest EXCEPT !.value = FALSE]).updates)>>]

\* <<q, r>> with k * n = q * d + r and 0 <= r < d, for 0 <= n < d, by doubling
RECURSIVE MulDiv(_, _, _)
MulDiv(k, n, d) ==
    IF k = 0 THEN <<0, 0>>
    ELSE LET half == MulDiv(k \div 2, n, d)
             r == 2 * half[2] + (IF k % 2 = 1 THEN n ELSE 0)
         IN  <<2 * half[1] + r \div d, r % d>>

\* (x * 100).toFixed(1) as a number of tenths: 1000 x rounded to the nearest integer
ToFixed1(x) == (MulDiv(2000, x[1], x[2])[1] + 1) \div 2

\* the lines under "Updated Diagnosis Probabilities"; replace(/_/g, ' ') is
\* one-to-one on the keys, which hold no blank
AnalysisReport(ds) ==
    LET rankedDiagnoses == Tuple(getRankedDiagnoses(ds))
    IN  [i \in 1..Len(ds) |->
            [condition |-> rankedDiagnoses[i].condition,
             percentage |-> ToFixed1(rankedDiagnoses[i].posteriorProbability)]]

AnalysisRepresentable(analysis) ==
    /\ Representable(analysis.store)
    /\ \A k \in 1..2 : \A i \in 1..Len(analysis.store) :
          analysis.hypothetical[k][i].newProbability # NaR

prepareBayesianAnalysis(s) ==
    /\ calls < MaxCalls
    /\ calls' = calls + 1
    /\ \E analysis \in {Analysis(diagnoses, updates, s)} :
          /\ AnalysisRepresentable(analysis)
          /\ diagnoses' = analysis.store
          /\ updates' = analysis.updates
          /\ hypothetical' = analysis.hypothetical
    /\ UNCHANGED <<workflowVars, toolVars>>

--------------------------------------------------------------------------

reset ==
    /\ calls < MaxCalls
    /\ calls' = calls + 1
    /\ diagnoses' = <<>>
    /\ hypothetical' = <<>>
    /\ UNCHANGED <<updates, workflowVars, toolVars>>


--------------------------------------------------------------------------
(* Case state: the channels of MedicalDiagnosticAnnotation *)

MaxMessages == 7       \* messages.count saturates here
MaxTurnCount == 6      \* agentTurns.count saturates here
MaxHistory == 4        \* questionHistory saturates here
MaxCost == 2000        \* cumulativeCost saturates here (above every budget)

DefaultBudget == 1000            \* costBudget default and the value initializeCase sets
InteractionFloor == 3            \* interactionRound < 3
ConfidenceThreshold == 80        \* confidenceLevel < 0.8, in percent
LowConfidence == 40              \* confidenceLevel < 0.4, in percent
FanOutLimit == 4                 \* differentialDiagnoses.length > 4
RefineRounds == 5                \* interactionRound < 5
RefineFanOut == 2                \* differentialDiagnoses.length > 2
RoundCap == 5                    \* debateRound >= 5
SeverityRound == 2               \* interactionRound >= 2
MaxQuestions == 5                \* slice(0, 5)
DebateMaxRounds == 2             \* debateConfig.maxRounds
DebateConfidenceThreshold == 80  \* debateConfig.confidenceThreshold, in percent
DebateCostBudgetLimit == 1000    \* debateConfig.costBudgetLimit
DeliberationExit == 60           \* confidenceLevel > 0.6, in percent

Min(a, b) == IF a < b THEN a ELSE b

\* the element of a singleton; {e(x) : x \in {v}} computes v once and names it x
The(S) == CHOOSE x \in S : TRUE

\* Array.prototype.sort with a descending comparator (stable): key[i] ranks seq[i]
StableSortDesc(seq, key) ==
    LET n == Len(seq)
        rank(i) == 1 + Cardinality({j \in 1..n :
                          key[j] > key[i] \/ (key[j] = key[i] /\ j < i)})
    IN  [p \in 1..n |-> seq[CHOOSE i \in 1..n : rank(i) = p]]

Take(seq, n) == SubSeq(seq, 1, Min(Len(seq), n))

LastN(seq, n) == SubSeq(seq, Len(seq) - Min(Len(seq), n) + 1, Len(seq))

\* default values of the channels
DefaultCaseInfo ==
    [patientId |-> "", age |-> 0, gender |-> "", complaintHasPain |-> FALSE,
     historyHasOnset |-> FALSE, medications |-> FALSE, allergies |-> FALSE,
     familyHistory |-> FALSE]

InitialState ==
    [messages |-> [count |-> 0, last |-> "none"],
     differentialDiagnoses |-> <<>>,
     availableCaseInfo |-> DefaultCaseInfo,
     cumulativeCost |-> 0,
     costBudget |-> DefaultBudget,
     currentPhase |-> "case_presentation",
     debateRound |-> 0,
     agentTurns |-> [count |-> 0, recent |-> <<>>],
     confidenceLevel |-> 0,
     readyForDiagnosis |-> FALSE,
     finalDiagnosis |-> <<>>,
     pendingQuestions |-> <<>>,
     awaitingUserInput |-> FALSE,
     questionHistory |-> 0,
     interactionRound |-> 0,
     requiredInformationGathered |-> {}]

\* one channel's reducer applied to its current value and a node's update
Reducer(channel, current, update) ==
    CASE channel = "messages" ->
            [count |-> Min(current.count + update.count, MaxMessages),
             last |-> IF update.count > 0 THEN update.last ELSE current.last]
      [] channel = "agentTurns" ->
            [count |-> Min(current.count + update.count, MaxTurnCount),
             recent |-> LastN(current.recent \o update.recent, 2)]
      [] channel = "availableCaseInfo" ->
            [k \in DOMAIN current |-> IF k \in DOMAIN update THEN update[k] ELSE current[k]]
      [] channel = "cumulativeCost" -> Min(current + update, MaxCost)
      [] channel = "questionHistory" -> Min(current + update, MaxHistory)
      [] channel \in {"costBudget", "debateRound", "confidenceLevel"} ->
            IF update # 0 THEN update ELSE current
      [] channel = "finalDiagnosis" -> IF update # <<>> THEN update ELSE current
      [] OTHER -> update

\* the state after a node's partial update has been merged
ApplyUpdate(s, u) ==
    The({[k \in DOMAIN s |-> IF k \in DOMAIN update THEN Reducer(k, s[k], update[k])
                             ELSE s[k]] : update \in {u}})

\* [...state.messages, new AIMessage(..)]
WithAIMessage(s) == [count |-> Min(s.messages.count + 1, MaxMessages), last |-> "ai"]

NoUpdate == [x \in {} |-> 0]

--------------------------------------------------------------------------
(* PatientQuestionAgent *)

hasMissingEssentialInfo(s) ==
    LET caseInfo == s.availableCaseInfo
        gathered == s.requiredInformationGathered
    IN  \/ caseInfo.age = 0
        \/ caseInfo.gender \in {"", "unknown"}
        \/ "medications" \notin gathered /\ ~caseInfo.medications
        \/ "allergies" \notin gathered /\ ~caseInfo.allergies
        \/ "family_history" \notin gathered /\ ~caseInfo.familyHistory
        \/ "symptom_timeline" \notin gathered /\ ~caseInfo.historyHasOnset
        \/ s.interactionRound >= SeverityRound /\ "symptom_severity" \notin gathered

\* a policy that looks at the pending questions after its triggers
shouldGenerateQuestionsPendingLast(s) ==
    IF s.confidenceLevel < LowConfidence THEN TRUE
    ELSE IF Len(s.differentialDiagnoses) > FanOutLimit THEN TRUE
    ELSE IF \E i \in 1..Len(s.agentTurns.recent) : s.agentTurns.recent[i].infoRequest THEN TRUE
    ELSE IF s.currentPhase = "information_gathering" THEN TRUE
    ELSE FALSE

\* a policy with the listed triggers only
shouldGenerateQuestionsListed(s) ==
    IF Len(s.pendingQuestions) > 0 THEN FALSE
    ELSE IF s.interactionRound < InteractionFloor THEN TRUE
    ELSE IF s.confidenceLevel < LowConfidence THEN TRUE
    ELSE IF Len(s.differentialDiagnoses) > FanOutLimit THEN TRUE
    ELSE IF hasMissingEssentialInfo(s) THEN TRUE
    ELSE IF \E i \in 1..Len(s.agentTurns.recent) : s.agentTurns.recent[i].infoRequest THEN TRUE
    ELSE FALSE

shouldGenerateQuestions(s) ==
    IF Len(s.pendingQuestions) > 0 THEN FALSE
    ELSE IF s.interactionRound < InteractionFloor THEN TRUE
    ELSE IF s.confidenceLevel < LowConfidence THEN TRUE
    ELSE IF Len(s.differentialDiagnoses) > FanOutLimit THEN TRUE
    ELSE IF hasMissingEssentialInfo(s) THEN TRUE
    ELSE IF \E i \in 1..Len(s.agentTurns.recent) : s.agentTurns.recent[i].infoRequest THEN TRUE
    ELSE IF s.currentPhase = "information_gathering" THEN TRUE
    ELSE IF s.interactionRound < RefineRounds /\ Len(s.differentialDiagnoses) > RefineFanOut
         THEN TRUE
    ELSE FALSE

generateDefaultQuestions(s) ==
    (IF ~s.availableCaseInfo.historyHasOnset
     THEN <<[category |-> "symptoms", priority |-> "high", id |-> "timeline"]>> ELSE <<>>)
    \o (IF s.availableCaseInfo.complaintHasPain
        THEN <<[category |-> "symptoms", priority |-> "high", id |-> "pain"]>> ELSE <<>>)
    \o (IF ~s.availableCaseInfo.medications
        THEN <<[category |-> "medications", priority |-> "medium", id |-> "meds"]>> ELSE <<>>)

\* content.wellFormed: JSON.parse succeeds and parsed.questions is a list
parseQuestions(content, s) ==
    IF content.wellFormed THEN content.questions ELSE generateDefaultQuestions(s)

calculateQuestionScore(question, s) ==
    (CASE question.priority = "high" -> 3
       [] question.priority = "medium" -> 2
       [] question.priority = "low" -> 1
       [] OTHER -> 0)
    + (CASE s.currentPhase = "initial_assessment"
               /\ question.category \in {"symptoms", "history"} -> 2
         [] s.currentPhase = "information_gathering"
               /\ question.category \in {"family", "social"} -> 2
         [] s.currentPhase = "patient_interaction" -> 1
         [] OTHER -> 0)
    + (IF Len(s.differentialDiagnoses) > 0 /\ s.differentialDiagnoses[1].probability > 60
       THEN 2 ELSE 0)

prioritizeQuestions(questions, s) ==
    Take(StableSortDesc(questions,
                        [i \in 1..Len(questions) |-> calculateQuestionScore(questions[i], s)]),
         MaxQuestions)

\* the value generateQuestions resolves to when the oracle returns content
generateQuestions(s, content) == prioritizeQuestions(parseQuestions(content, s), s)

\* what the oracle may answer to the question prompt
QuestionContents ==
    {[wellFormed |-> FALSE, questions |-> <<>>],
     [wellFormed |-> TRUE, questions |-> <<>>],
     [wellFormed |-> TRUE,
      questions |-> <<[category |-> "family", priority |-> "low", id |-> "q0"],
                      [category |-> "symptoms", priority |-> "high", id |-> "q1"]>>]}


--------------------------------------------------------------------------
(* ChainOfDebate and PhysicianAgent.parseResponse *)

getDebateSequence(phase) ==
    CASE phase \in {"case_presentation", "initial_assessment"} ->
            <<"hypothesis", "challenger", "checklist">>
      [] phase = "information_gathering" ->
            <<"hypothesis", "test_chooser", "stewardship", "challenger">>
      [] phase = "test_selection" ->
            <<"test_chooser", "stewardship", "challenger", "checklist">>
      [] phase = "deliberation" ->
            <<"hypothesis", "challenger", "stewardship", "checklist">>
      [] phase = "final_diagnosis" ->
            <<"hypothesis", "checklist", "stewardship">>
      [] OTHER ->
            <<"hypothesis", "test_chooser", "challenger", "stewardship", "checklist">>

\* What the oracle's texts of one debate round contain:
\*   diagnoses   the "name (NN%)" phrases in the hypothesis text
\*   tests       the test_chooser text has a test/lab/imaging line
\*   cost        the dollar amount in the stewardship text
\*   infoRequest the recommendations carry need/require/ask/clarify
RoundContent(phrases, tests, cost, infoRequest) ==
    [diagnoses |-> phrases, tests |-> tests, cost |-> cost, infoRequest |-> infoRequest]

MI(probability) == <<[condition |-> "myocardial infarction", probability |-> probability]>>

RoundContents ==
    {RoundContent(<<>>, FALSE, 0, FALSE),
     RoundContent(MI(70), TRUE, 500, FALSE),
     RoundContent(MI(70), FALSE, 0, FALSE),
     RoundContent(MI(90), FALSE, 0, TRUE),
     RoundContent(<<[condition |-> "pneumonia", probability |-> 30]>>, FALSE, 500, FALSE),
     RoundContent(MI(100) \o <<[condition |-> "pneumonia", probability |-> 150]>>,
                  FALSE, 0, FALSE),
     RoundContent(MI(0), FALSE, 0, FALSE)}

\* the AgentTurn parseResponse builds for one role
parseResponse(role, content) ==
    [agentRole |-> role,
     infoRequest |-> content.infoRequest,
     testsRequested |-> role = "test_chooser" /\ content.tests,
     diagnosisUpdates |-> IF role = "hypothesis" THEN content.diagnoses ELSE <<>>,
     estimatedCost |-> IF role = "stewardship" THEN content.cost ELSE 0]

RECURSIVE MergeUpdates(_, _)
MergeUpdates(diags, upds) ==
    IF upds = <<>> THEN diags
    ELSE LET update == Head(upds)
             found == {i \in 1..Len(diags) : diags[i].condition = update.condition}
         IN  IF found # {}
             THEN MergeUpdates([diags EXCEPT ![CHOOSE i \in found : \A j \in found : i <= j]
                                                    .probability = update.probability],
                               Tail(upds))
             ELSE MergeUpdates(Append(diags, update), Tail(upds))

updateDifferentialDiagnoses(current, upds) ==
    LET diags == MergeUpdates(current, upds)
    IN  StableSortDesc(diags, [i \in 1..Len(diags) |-> diags[i].probability])

RECURSIVE FoldDiagnoses(_, _)
FoldDiagnoses(diags, turns) ==
    IF turns = <<>> THEN diags
    ELSE FoldDiagnoses(IF Head(turns).agentRole = "hypothesis"
                       THEN updateDifferentialDiagnoses(diags, Head(turns).diagnosisUpdates)
                       ELSE diags,
                       Tail(turns))

RECURSIVE SumCost(_)
SumCost(turns) == IF turns = <<>> THEN 0 ELSE Head(turns).estimatedCost + SumCost(Tail(turns))

TurnView(turn) ==
    [agentRole |-> turn.agentRole, infoRequest |-> turn.infoRequest,
     testsRequested |-> turn.testsRequested]

\* the update one executeDebateRound call returns
executeDebateRound(s, sequence, round, content) ==
    LET turns == [i \in 1..Len(sequence) |-> parseResponse(sequence[i], content)]
    IN  [agentTurns |-> [count |-> Min(s.agentTurns.count + Len(turns), MaxTurnCount),
                         recent |-> LastN(s.agentTurns.recent
                                          \o [i \in 1..Len(turns) |-> TurnView(turns[i])], 2)],
         differentialDiagnoses |-> FoldDiagnoses(s.differentialDiagnoses, turns),
         cumulativeCost |-> Min(s.cumulativeCost + SumCost(turns), MaxCost),
         debateRound |-> round + 1,
         messages |-> WithAIMessage(s)]

\* Object.assign(target, source)
Assign(target, source) ==
    The({[k \in DOMAIN t \cup DOMAIN u |-> IF k \in DOMAIN u THEN u[k] ELSE t[k]] :
            t \in {target}, u \in {source}})

\* a termination test that leaves the budget out
shouldTerminateDebateNoBudget(s) ==
    \/ s.confidenceLevel >= DebateConfidenceThreshold
    \/ s.readyForDiagnosis

shouldTerminateDebate(s) ==
    \/ s.confidenceLevel >= DebateConfidenceThreshold
    \/ s.cumulativeCost >= DebateCostBudgetLimit
    \/ s.readyForDiagnosis

\* a phase function that keeps the phase while the confidence is below the threshold
determineNextPhaseStay(s, confidenceLevel) ==
    IF confidenceLevel >= DebateConfidenceThreshold THEN "final_diagnosis"
    ELSE s.currentPhase

\* a phase function that leaves deliberation forward only
determineNextPhaseForward(s, confidenceLevel) ==
    IF confidenceLevel >= DebateConfidenceThreshold THEN "final_diagnosis"
    ELSE CASE s.currentPhase = "case_presentation" -> "initial_assessment"
           [] s.currentPhase = "initial_assessment" -> "information_gathering"
           [] s.currentPhase = "information_gathering" -> "test_selection"
           [] s.currentPhase = "test_selection" -> "deliberation"
           [] OTHER -> "final_diagnosis"

determineNextPhase(s, confidenceLevel) ==
    IF confidenceLevel >= DebateConfidenceThreshold THEN "final_diagnosis"
    ELSE CASE s.currentPhase = "case_presentation" -> "initial_assessment"
           [] s.currentPhase = "initial_assessment" -> "information_gathering"
           [] s.currentPhase = "information_gathering" -> "test_selection"
           [] s.currentPhase = "test_selection" -> "deliberation"
           [] s.currentPhase = "deliberation" ->
                IF confidenceLevel > DeliberationExit THEN "final_diagnosis"
                ELSE "information_gathering"
           [] OTHER -> "final_diagnosis"

synthesizeDebateResults(s) ==
    LET confidenceLevel == IF Len(s.differentialDiagnoses) > 0
                           THEN s.differentialDiagnoses[1].probability
                           ELSE 0
    IN  [finalDiagnosis |-> Take(s.differentialDiagnoses, 1),
         confidenceLevel |-> confidenceLevel,
         readyForDiagnosis |-> confidenceLevel >= DebateConfidenceThreshold,
         currentPhase |-> determineNextPhase(s, confidenceLevel),
         messages |-> WithAIMessage(s)]

\* the loop of orchestrateDebate from its second iteration on: s1 is the state
\* the first round has been assigned to, u1 the updates collected so far
RemainingRounds(s1, u1, sequence, contents) ==
    IF DebateMaxRounds < 2 \/ shouldTerminateDebate(s1) THEN <<s1, u1>>
    ELSE The({<<Assign(s1, u2), Assign(u1, u2)>> :
                u2 \in {executeDebateRound(s1, sequence, 1, contents[2])}})

\* the update orchestrateDebate returns; contents[r] is what the oracle says in round r
orchestrateDebate(s, contents) ==
    The({Assign(after[2], synthesizeDebateResults(after[1])) :
            after \in {The({RemainingRounds(Assign(s, u1), u1,
                                            getDebateSequence(s.currentPhase), contents) :
                            u1 \in {executeDebateRound(s, getDebateSequence(s.currentPhase),
                                                       0, contents[1])}})}})

InSequence(role, sequence) == \E i \in 1..Len(sequence) : sequence[i] = role

\* the case states the hypothesis agent's prepareBayesianAnalysis is given in
\* one orchestrateDebate call, one for each round the debate runs
DebateAnalysisStates(s, contents) ==
    IF ~InSequence("hypothesis", getDebateSequence(s.currentPhase)) THEN <<>>
    ELSE The({IF DebateMaxRounds < 2 \/ shouldTerminateDebate(s1) THEN <<s>> ELSE <<s, s1>> :
                s1 \in {Assign(s, executeDebateRound(s, getDebateSequence(s.currentPhase),
                                                      0, contents[1]))}})

\* priorProbability = diagnosis.probability / 100 of every initializeDiagnosis
\* call that seeds the store from state.differentialDiagnoses
SeedPriors(s) ==
    [i \in 1..Len(s.differentialDiagnoses) |-> Rat(s.differentialDiagnoses[i].probability, 100)]

\* a briefing that leaves out the contributions of the round
buildDebateContextAlone(round, currentRole, currentTurns) ==
    [round |-> round + 1, role |-> currentRole, contributions |-> <<>>]

\* the briefing of one oracle call: the round, the role addressed, and the
\* roles whose contributions of this round it quotes
buildDebateContext(round, currentRole, currentTurns) ==
    [round |-> round + 1, role |-> currentRole,
     contributions |-> [j \in 1..Len(currentTurns) |-> currentTurns[j].agentRole]]

\* the oracle calls of one executeDebateRound, in the order they are made: the
\* i-th is made for sequence[i] once the turns of the i - 1 calls before it
\* have been pushed to agentTurns, and is briefed with them
RoundCalls(sequence, round, content) ==
    [i \in 1..Len(sequence) |->
        [role |-> sequence[i],
         context |-> buildDebateContext(round, sequence[i],
                        [j \in 1..(i - 1) |-> parseResponse(sequence[j], content)])]]

\* the number of rounds one orchestrateDebate call runs
RoundsRun(s, contents) ==
    LET s1 == Assign(s, executeDebateRound(s, getDebateSequence(s.currentPhase), 0,
                                           contents[1]))
    IN  IF DebateMaxRounds < 2 \/ shouldTerminateDebate(s1) THEN 1 ELSE 2

\* the oracle calls of one orchestrateDebate call, round by round
DebateCalls(s, contents) ==
    [k \in 1..RoundsRun(s, contents) |->
        RoundCalls(getDebateSequence(s.currentPhase), k - 1, contents[k])]

\* the case state as prepareBayesianAnalysis reads it: the case texts of the
\* workflow mention pain and no fever, and no test result is stored
CaseAnalysisState(s) ==
    AnalysisState(s.differentialDiagnoses, FALSE, 0, s.availableCaseInfo.age)

\* the store of the hypothesis agent's engine after one orchestrateDebate call:
\* what the analysis of the last round leaves
DebateStore(ds, s, contents) ==
    The({IF states = <<>> THEN ds
         ELSE The({UpdateAll(Tuple(InitializeAll(AnalysisStart(ds), AnalysisPriors(last))),
                             <<>>, AnalysisEvidence(last)).store :
                      last \in {CaseAnalysisState(states[Len(states)])}}) :
            states \in {DebateAnalysisStates(s, contents)}})

--------------------------------------------------------------------------
(* Nodes of the main graph *)

\* the case text of a human message mentions pain but no onset word
TextHasPain == TRUE
TextHasOnset == FALSE

\* the record initializeCase and extractCaseInformation fall back to
FallbackCaseInfo(complaintHasPain, historyHasOnset) ==
    [patientId |-> "CASE_now", age |-> 45, gender |-> "unknown",
     complaintHasPain |-> complaintHasPain, historyHasOnset |-> historyHasOnset,
     medications |-> FALSE, allergies |-> FALSE, familyHistory |-> FALSE]

\* What the oracle may answer to the extraction prompt: it throws, its text is
\* not JSON, or it is a JSON object (here: an empty one, or a complete one)
ExtractionContents ==
    {[outcome |-> "throws"], [outcome |-> "malformed"],
     [outcome |-> "json", patientId |-> "", age |-> 0, gender |-> "",
      complaint |-> FALSE, complaintHasPain |-> FALSE,
      history |-> FALSE, historyHasOnset |-> FALSE,
      medications |-> FALSE, allergies |-> FALSE, familyHistory |-> FALSE],
     [outcome |-> "json", patientId |-> "CASE_123", age |-> 55, gender |-> "male",
      complaint |-> TRUE, complaintHasPain |-> TRUE,
      history |-> TRUE, historyHasOnset |-> TRUE,
      medications |-> TRUE, allergies |-> TRUE, familyHistory |-> TRUE]}

extractCaseInformation(content) ==
    IF content.outcome # "json" THEN FallbackCaseInfo(TextHasPain, TextHasOnset)
    ELSE [patientId |-> IF content.patientId # "" THEN content.patientId ELSE "CASE_now",
          age |-> IF content.age # 0 THEN content.age ELSE 45,
          gender |-> IF content.age # 0 THEN content.gender ELSE "unknown",  \* demographics
          complaintHasPain |-> IF content.complaint THEN content.complaintHasPain
                               ELSE TextHasPain,
          historyHasOnset |-> IF content.history THEN content.historyHasOnset
                              ELSE TextHasOnset,
          medications |-> content.medications,
          allergies |-> content.allergies,
          familyHistory |-> content.familyHistory]

\* an initialization that does not look for an existing patientId
initializeCaseAgain(s, content) ==
    IF s.messages.last # "text"
    THEN [availableCaseInfo |-> FallbackCaseInfo(FALSE, FALSE),
          currentPhase |-> "initial_assessment",
          costBudget |-> DefaultBudget,
          messages |-> WithAIMessage(s)]
    ELSE [availableCaseInfo |-> extractCaseInformation(content),
          currentPhase |-> "initial_assessment",
          costBudget |-> DefaultBudget,
          messages |-> WithAIMessage(s)]

\* the update initializeCase returns
initializeCase(s, content) ==
    IF s.availableCaseInfo.patientId # "" THEN NoUpdate
    ELSE IF s.messages.last # "text"
    THEN [availableCaseInfo |-> FallbackCaseInfo(FALSE, FALSE),
          currentPhase |-> "initial_assessment",
          costBudget |-> DefaultBudget,
          messages |-> WithAIMessage(s)]
    ELSE [availableCaseInfo |-> extractCaseInformation(content),
          currentPhase |-> "initial_assessment",
          costBudget |-> DefaultBudget,
          messages |-> WithAIMessage(s)]

\* an interaction step that returns the accumulated cost along with the questions
patientInteractionWithCost(s, content) ==
    IF Len(s.pendingQuestions) > 0
    THEN [awaitingUserInput |-> TRUE, messages |-> WithAIMessage(s)]
    ELSE IF shouldGenerateQuestions(s) /\ Len(generateQuestions(s, content)) > 0
    THEN [pendingQuestions |-> generateQuestions(s, content),
          questionHistory |-> Min(s.questionHistory + Len(generateQuestions(s, content)),
                                  MaxHistory),
          awaitingUserInput |-> TRUE,
          interactionRound |-> s.interactionRound + 1,
          currentPhase |-> "patient_interaction",
          cumulativeCost |-> s.cumulativeCost,
          messages |-> WithAIMessage(s)]
    ELSE NoUpdate

\* the update patientInteraction returns when the oracle returns content
patientInteraction(s, content) ==
    IF Len(s.pendingQuestions) > 0
    THEN [awaitingUserInput |-> TRUE, messages |-> WithAIMessage(s)]
    ELSE IF shouldGenerateQuestions(s) /\ Len(generateQuestions(s, content)) > 0
    THEN [pendingQuestions |-> generateQuestions(s, content),
          questionHistory |-> Min(s.questionHistory + Len(generateQuestions(s, content)),
                                  MaxHistory),
          awaitingUserInput |-> TRUE,
          interactionRound |-> s.interactionRound + 1,
          currentPhase |-> "patient_interaction",
          messages |-> WithAIMessage(s)]
    ELSE NoUpdate

\* the update finalAssessment returns
finalAssessment(s) ==
    [messages |-> WithAIMessage(s), currentPhase |-> "final_diagnosis"]

\* a routing without the budget rule
routeWorkflowNoBudget(s) ==
    IF s.awaitingUserInput THEN "patient_interaction"
    ELSE IF shouldGenerateQuestions(s) THEN "patient_interaction"
    ELSE IF s.readyForDiagnosis \/ s.currentPhase = "final_diagnosis"
    THEN IF s.interactionRound < InteractionFloor /\ s.confidenceLevel < ConfidenceThreshold
         THEN "patient_interaction"
         ELSE "final_assessment"
    ELSE IF s.debateRound >= RoundCap
    THEN IF s.interactionRound < InteractionFloor \/ shouldGenerateQuestions(s)
         THEN "patient_interaction"
         ELSE "final_assessment"
    ELSE IF s.debateRound > 0 /\ s.debateRound % 2 = 0 /\ s.interactionRound < InteractionFloor
    THEN "patient_interaction"
    ELSE IF s.agentTurns.recent # <<>>
            /\ s.agentTurns.recent[Len(s.agentTurns.recent)].testsRequested
    THEN "diagnostic_tools"
    ELSE "medical_debate"

\* the conditional edge out of medical_debate
routeWorkflow(s) ==
    IF s.awaitingUserInput THEN "patient_interaction"
    ELSE IF shouldGenerateQuestions(s) THEN "patient_interaction"
    ELSE IF s.readyForDiagnosis \/ s.currentPhase = "final_diagnosis"
    THEN IF s.interactionRound < InteractionFloor /\ s.confidenceLevel < ConfidenceThreshold
         THEN "patient_interaction"
         ELSE "final_assessment"
    ELSE IF s.cumulativeCost >= s.costBudget THEN "final_assessment"
    ELSE IF s.debateRound >= RoundCap
    THEN IF s.interactionRound < InteractionFloor \/ shouldGenerateQuestions(s)
         THEN "patient_interaction"
         ELSE "final_assessment"
    ELSE IF s.debateRound > 0 /\ s.debateRound % 2 = 0 /\ s.interactionRound < InteractionFloor
    THEN "patient_interaction"
    ELSE IF s.agentTurns.recent # <<>>
            /\ s.agentTurns.recent[Len(s.agentTurns.recent)].testsRequested
    THEN "diagnostic_tools"
    ELSE "medical_debate"

routePatientInteraction(s) ==
    IF Len(s.pendingQuestions) > 0 THEN "__end__" ELSE "medical_debate"

routeAfterInitialization(s) ==
    IF s.currentPhase = "patient_interaction" \/ s.awaitingUserInput
    THEN "patient_interaction"
    ELSE IF s.currentPhase = "final_diagnosis" \/ s.readyForDiagnosis
    THEN "final_assessment"
    ELSE "medical_debate"

\* compile({interruptBefore: ["patient_interaction"]}): the run pauses in front of
\* that node
Interrupt(target) == IF target = "patient_interaction" THEN "interrupted" ELSE target

--------------------------------------------------------------------------
(* The main workflow *)

HumanTexts == {"text", "empty"}

\* The caller invokes the graph with a human message: a new case, or an answer
\* sent to a run that is paused or has ended.  The run starts at __start__,
\* whose only edge leads to initialize_case.
Invoke(text) ==
    /\ pc \in {"__start__", "__end__", "interrupted", "__error__"}
    /\ state' = ApplyUpdate(state, [messages |-> [count |-> 1, last |-> text]])
    /\ pc' = "initialize_case"
    /\ UNCHANGED <<aborted, engineVars, toolVars>>

\* The caller resumes a paused run without new input
Resume ==
    /\ pc = "interrupted"
    /\ pc' = "patient_interaction"
    /\ UNCHANGED <<state, aborted, engineVars, toolVars>>

InitializeCaseStep(content) ==
    /\ pc = "initialize_case"
    /\ state' = ApplyUpdate(state, initializeCase(state, content))
    /\ pc' = Interrupt(routeAfterInitialization(state'))
    /\ UNCHANGED <<aborted, engineVars, toolVars>>

MedicalDebateStep(contents) ==
    /\ pc = "medical_debate"
    /\ state' = ApplyUpdate(state, orchestrateDebate(state, contents))
    /\ pc' = Interrupt(routeWorkflow(state'))
    /\ diagnoses' = DebateStore(diagnoses, state, contents)
    /\ UNCHANGED <<aborted, updates, hypothetical, calls, toolVars>>

\* generateResponse has no handler around model.invoke: the rejection leaves
\* orchestrateDebate, medicalDebate and the run
MedicalDebateThrows ==
    /\ pc = "medical_debate"
    /\ pc' = "__error__"
    /\ aborted' = TRUE
    /\ UNCHANGED <<state, engineVars, toolVars>>

PatientInteractionStep(content) ==
    /\ pc = "patient_interaction"
    /\ state' = ApplyUpdate(state, patientInteraction(state, content))
    /\ pc' = Interrupt(routePatientInteraction(state'))
    /\ UNCHANGED <<aborted, engineVars, toolVars>>

\* generateQuestions has no handler around model.invoke
PatientInteractionThrows ==
    /\ pc = "patient_interaction"
    /\ Len(state.pendingQuestions) = 0
    /\ shouldGenerateQuestions(state)
    /\ pc' = "__error__"
    /\ aborted' = TRUE
    /\ UNCHANGED <<state, engineVars, toolVars>>

FinalAssessmentStep ==
    /\ pc = "final_assessment"
    /\ state' = ApplyUpdate(state, finalAssessment(state))
    /\ pc' = "__end__"
    /\ UNCHANGED <<aborted, engineVars, toolVars>>

\* finalAssessment has no handler around model.invoke
FinalAssessmentThrows ==
    /\ pc = "final_assessment"
    /\ pc' = "__error__"
    /\ aborted' = TRUE
    /\ UNCHANGED <<state, engineVars, toolVars>>

Init ==
    /\ diagnoses = <<>>
    /\ updates = <<>>
    /\ hypothetical = <<>>
    /\ recommendations = <<>>
    /\ calls = 0
    /\ state = InitialState
    /\ pc = "__start__"
    /\ aborted = FALSE

Returning ==
    \/ \E text \in HumanTexts : Invoke(text)
    \/ Resume
    \/ \E content \in ExtractionContents : InitializeCaseStep(content)
    \/ \E c1, c2 \in RoundContents : MedicalDebateStep(<<c1, c2>>)
    \/ \E content \in QuestionContents : PatientInteractionStep(content)
    \/ FinalAssessmentStep

Next ==
    \/ Returning
    \/ MedicalDebateThrows
    \/ PatientInteractionThrows
    \/ FinalAssessmentThrows

Spec == Init /\ [][Next]_vars

\* every oracle call returns and the caller keeps answering
FairSpec == Init /\ [][Returning]_vars /\ WF_vars(Returning)

--------------------------------------------------------------------------
(* The engine on its own *)

EngineNext ==
    \/ \E c \in Conditions, p \in Priors : initializeDiagnosis(c, p)
    \/ \E e \in EvidenceSet : updateWithEvidence(e)
    \/ \E e \in PotentialEvidence : calculateInformationGain(e)
    \/ reset

EngineSpec == Init /\ [][EngineNext]_vars

\* one condition tracked, then evidence applied piece by piece
OrderPriors == {<<1, 50>>, <<99, 100>>}

OrderInit ==
    /\ diagnoses \in {<<NewDiagnosis(c, p)>> : c \in Conditions, p \in OrderPriors}
    /\ updates = <<>>
    /\ hypothetical = <<>>
    /\ recommendations = <<>>
    /\ calls = 1
    /\ state = InitialState
    /\ pc = "__start__"
    /\ aborted = FALSE

OrderNext == \E e \in EvidenceSet : updateWithEvidence(e)

OrderSpec == OrderInit /\ [][OrderNext]_vars

\* the engine of a PhysicianAgent is private: only its analyses call it
AnalysisNext == \E s \in AnalysisStates : prepareBayesianAnalysis(s)

AnalysisSpec == Init /\ [][AnalysisNext]_vars


--------------------------------------------------------------------------
(* routeWorkflow on its own, applied to arbitrary case states *)

CompleteCaseInfo ==
    [patientId |-> "CASE_123", age |-> 55, gender |-> "male", complaintHasPain |-> TRUE,
     historyHasOnset |-> TRUE, medications |-> TRUE, allergies |-> TRUE,
     familyHistory |-> TRUE]

AllGathered ==
    {"medications", "allergies", "family_history", "symptom_timeline", "symptom_severity"}

Diagnoses(n) == [i \in 1..n |-> [condition |-> <<"condition", i>>, probability |-> 60 - i]]

Turn(role, infoRequest, testsRequested) ==
    [agentRole |-> role, infoRequest |-> infoRequest, testsRequested |-> testsRequested]

RouteStates ==
    {[InitialState EXCEPT
         !.awaitingUserInput = awaiting,
         !.pendingQuestions = pending,
         !.readyForDiagnosis = ready,
         !.interactionRound = rounds[1],
         !.debateRound = rounds[2],
         !.confidenceLevel = confidence,
         !.cumulativeCost = cost,
         !.currentPhase = phase,
         !.differentialDiagnoses = Diagnoses(fanOut),
         !.agentTurns = [count |-> Len(turns), recent |-> turns],
         !.availableCaseInfo = info[1],
         !.requiredInformationGathered = info[2]] :
       awaiting \in BOOLEAN,
       pending \in {<<>>, <<[category |-> "symptoms", priority |-> "high", id |-> "q1"]>>},
       ready \in BOOLEAN,
       rounds \in {0, 2, 3, 5} \X {0, 2, 3, 5},
       confidence \in {30, 79, 80},
       cost \in {0, DefaultBudget, DefaultBudget + 500},
       phase \in {"initial_assessment", "information_gathering", "deliberation",
                  "final_diagnosis"},
       fanOut \in {0, 3, 5},
       turns \in {<<>>, <<Turn("test_chooser", FALSE, TRUE)>>,
                  <<Turn("challenger", TRUE, FALSE)>>},
       info \in {<<CompleteCaseInfo, AllGathered>>, <<FallbackCaseInfo(TRUE, FALSE), {}>>}}

RouteInit ==
    /\ diagnoses = <<>>
    /\ updates = <<>>
    /\ hypothetical = <<>>
    /\ recommendations = <<>>
    /\ calls = 0
    /\ state \in RouteStates
    /\ pc = "routing"
    /\ aborted = FALSE

\* routeWorkflow applied to the case state
RouteWorkflowStep ==
    /\ pc = "routing"
    /\ pc' = routeWorkflow(state)
    /\ UNCHANGED <<state, aborted, engineVars, toolVars>>

RouteSpec == RouteInit /\ [][RouteWorkflowStep]_vars

--------------------------------------------------------------------------
(* Properties *)

\* r >= 0.001 for a rational r = <<n, d>>, without leaving the integer range
AtLeastPMin(r) == r[1] >= (r[2] + 999) \div 1000

InPosteriorRange(r) == AtLeastPMin(r) /\ AtLeastPMin(<<r[2] - r[1], r[2]>>)

\* C1: after updateWithEvidence has returned, the stored posterior of every
\* tracked condition lies in [0.001, 0.999]
C1_PosteriorInRange ==
    \A i \in 1..Len(diagnoses) :
        Len(diagnoses[i].evidence) > 0 => InPosteriorRange(diagnoses[i].posteriorProbability)

\* C2: final_assessment is never entered while interactionRound is below the
\* interaction floor and confidenceLevel is below the threshold
C2_FloorBeforeFinal ==
    pc = "final_assessment" =>
        ~(state.interactionRound < InteractionFloor
          /\ state.confidenceLevel < ConfidenceThreshold)

\* C3: once a run that carries the caller's answer has passed initialize_case,
\* the answer has been processed: no question is pending any more and
\* awaitingUserInput is false, so the questions are not presented again
C3_AnswerProcessed ==
    (/\ pc \in {"interrupted", "patient_interaction", "medical_debate"}
     /\ state.availableCaseInfo.patientId # ""
     /\ state.messages.last \in HumanTexts)
    => (state.pendingQuestions = <<>> /\ ~state.awaitingUserInput)

\* C4: when every oracle call returns and the caller keeps answering, every
\* case eventually reaches final_assessment
C4_EventuallyFinal == <>(pc = "final_assessment")

\* C5: initialize_case on a state that already carries a patientId changes no
\* field of the case state
C5_InitializeNoOp ==
    [][(pc = "initialize_case" /\ state.availableCaseInfo.patientId # "")
        => state' = state]_vars

\* a re-entered run has gone through initialize_case without any new message
\* being appended after the caller's
C5_Witness ==
    /\ pc \notin {"__start__", "initialize_case"}
    /\ state.availableCaseInfo.patientId # ""
    /\ state.messages.last \in HumanTexts
    /\ state.debateRound > 0

Routed == pc # "routing"

\* C6: with cumulativeCost equal to costBudget, routeWorkflow returns
\* final_assessment whatever the other fields are
C6_BudgetAlwaysFinal ==
    (Routed /\ state.cumulativeCost = state.costBudget) => pc = "final_assessment"

FloorOverride(s) ==
    /\ s.readyForDiagnosis \/ s.currentPhase = "final_diagnosis"
    /\ s.interactionRound < InteractionFloor
    /\ s.confidenceLevel < ConfidenceThreshold

\* C6 (amended): with cumulativeCost equal to costBudget, awaitingUserInput false
\* and the question policy not triggering, routeWorkflow returns
\* final_assessment, except under rule 3's floor override, where it returns
\* patient_interaction
C6_BudgetFinalAfterInteraction ==
    (/\ Routed
     /\ state.cumulativeCost = state.costBudget
     /\ ~state.awaitingUserInput
     /\ ~shouldGenerateQuestions(state))
    => pc = IF FloorOverride(state) THEN "patient_interaction" ELSE "final_assessment"

\* the budget rule itself has sent a case to final_assessment
C6_Witness ==
    /\ pc = "final_assessment"
    /\ state.cumulativeCost = state.costBudget
    /\ ~state.readyForDiagnosis
    /\ state.currentPhase # "final_diagnosis"

LastTurnRequestedTests(s) ==
    s.agentTurns.recent # <<>> /\ s.agentTurns.recent[Len(s.agentTurns.recent)].testsRequested

\* the eight transition rules of the specification, as <<guard, target>>, with
\* the outcome of the question-generation policy as a parameter
TransitionRules(s, moreQuestions) ==
    <<  <<s.awaitingUserInput, "patient_interaction">>,
        <<moreQuestions, "patient_interaction">>,
        <<s.readyForDiagnosis \/ s.currentPhase = "final_diagnosis",
          IF s.interactionRound < InteractionFloor /\ s.confidenceLevel < ConfidenceThreshold
          THEN "patient_interaction" ELSE "final_assessment">>,
        <<s.cumulativeCost >= s.costBudget, "final_assessment">>,
        <<s.debateRound >= RoundCap,
          IF s.interactionRound < InteractionFloor \/ moreQuestions
          THEN "patient_interaction" ELSE "final_assessment">>,
        <<s.debateRound > 0 /\ s.debateRound % 2 = 0
              /\ s.interactionRound < InteractionFloor,
          "patient_interaction">>,
        <<LastTurnRequestedTests(s), "diagnostic_tools">>,
        <<TRUE, "medical_debate">>  >>

FirstMatch(rules) ==
    rules[CHOOSE i \in 1..Len(rules) : rules[i][1] /\ \A j \in 1..(i - 1) : ~rules[j][1]][2]

\* the question-generation policy as the specification lists it
ListedPolicy(s) ==
    /\ s.pendingQuestions = <<>>
    /\ \/ s.interactionRound < InteractionFloor
       \/ s.confidenceLevel < LowConfidence
       \/ Len(s.differentialDiagnoses) > FanOutLimit
       \/ hasMissingEssentialInfo(s)
       \/ \E i \in 1..Len(s.agentTurns.recent) : s.agentTurns.recent[i].infoRequest

FullPolicy(s) ==
    /\ s.pendingQuestions = <<>>
    /\ \/ ListedPolicy(s)
       \/ s.currentPhase = "information_gathering"
       \/ s.interactionRound < RefineRounds /\ Len(s.differentialDiagnoses) > RefineFanOut

C9_SuspendKeepsState ==
    [][(pc = "patient_interaction" /\ pc' = "__end__")
        => /\ Len(state'.pendingQuestions) > 0
           /\ state'.awaitingUserInput
           /\ \A k \in {"differentialDiagnoses", "cumulativeCost", "costBudget",
                        "debateRound", "agentTurns", "confidenceLevel",
                        "availableCaseInfo"} : state'[k] = state[k]]_vars

\* a run has been suspended with questions after a debate that cost something
C9_Witness ==
    /\ pc = "__end__"
    /\ Len(state.pendingQuestions) > 0
    /\ state.awaitingUserInput
    /\ state.cumulativeCost > 0
    /\ state.differentialDiagnoses # <<>>

\* C10: no oracle failure propagates out of the workflow
C10_NoErrorEscapes == ~aborted

--------------------------------------------------------------------------
(* Properties of the engine *)

\* the step is the call updateWithEvidence(evidence); the records the call
\* returns carry its evidence, which is compared first to tell the calls apart
UpdateCall(evidence) ==
    /\ updates' = <<>> \/ updates'[1].evidence = evidence
    /\ updateWithEvidence(evidence)

\* the step is the call calculateInformationGain(potentialEvidence)
GainCall(potentialEvidence) ==
    /\ hypothetical' # <<>>
    /\ hypothetical'[1] = <<>> \/ hypothetical'[1][1].evidence.name = potentialEvidence.name
    /\ calculateInformationGain(potentialEvidence)

\* the store updateWithEvidence has written when it calls normalizeProbabilities
BeforeNormalization(ds, evidence) == [i \in 1..Len(ds) |-> UpdateOne(ds[i], evidence)]

\* C11: after an updateWithEvidence call the stored posteriors sum to at most 1:
\* when the sum before normalization exceeded 1, every posterior has been
\* multiplied by 0.95/sum and the stored sum is 0.95, below the sum before;
\* otherwise no posterior has been rescaled
C11_NormalizedSum ==
    [][\A evidence \in EvidenceSet :
          UpdateCall(evidence) =>
             LET before == BeforeNormalization(diagnoses, evidence)
                 total == SumPosterior(before)
                 stored == SumPosterior(diagnoses')
             IN  /\ stored # NaR
                 /\ RLeq(stored, One)
                 /\ IF RLess(One, total)
                    THEN /\ stored = Headroom
                         /\ Comparable(stored, total) => RLess(stored, total)
                         /\ \A i \in 1..Len(before) :
                               diagnoses'[i].posteriorProbability =
                                  RMul(before[i].posteriorProbability, RDiv(Headroom, total))
                    ELSE diagnoses' = before]_vars

\* an update has been stored after rescaling: the posteriors of several
\* conditions with logged evidence sum to 0.95
C11_Witness ==
    /\ Len(diagnoses) >= 2
    /\ \A i \in 1..Len(diagnoses) : Len(diagnoses[i].evidence) > 0
    /\ SumPosterior(diagnoses) = Headroom

\* the table entry calculateLikelihoodRatio adjusts, 1 when there is none
BaseRatio(condition, evidence) ==
    IF condition \notin DOMAIN evidenceBase
       \/ generateEvidenceKey(evidence) \notin DOMAIN evidenceBase[condition]
    THEN One
    ELSE evidenceBase[condition][generateEvidenceKey(evidence)]

\* C12: one updateWithEvidence call moves the stored posterior p of a tracked
\* condition with 0 < p < 1 strictly up when the base ratio is above 1 and the
\* confidence above 0, strictly down when the base ratio is below 1 and the
\* confidence above 0, and leaves it unchanged when the base ratio is 1 or the
\* confidence is 0
C12_Monotone ==
    [][\A evidence \in EvidenceSet :
          UpdateCall(evidence) =>
             \A i \in 1..Len(diagnoses) :
                LET p == diagnoses[i].posteriorProbability
                    q == diagnoses'[i].posteriorProbability
                    base == BaseRatio(diagnoses[i].condition, evidence)
                    confident == RLess(Zero, evidence.confidence)
                IN  (RLess(Zero, p) /\ RLess(p, One) /\ Comparable(p, q)) =>
                       /\ (RLess(One, base) /\ confident) => RLess(p, q)
                       /\ (RLess(base, One) /\ confident) => RLess(q, p)
                       /\ (base = One \/ ~confident) => q = p]_vars

\* no tracked condition has a table entry for the key of the evidence
UnknownEvidence(ds, evidence) ==
    \A i \in 1..Len(ds) :
       \/ ds[i].condition \notin DOMAIN evidenceBase
       \/ generateEvidenceKey(evidence) \notin DOMAIN evidenceBase[ds[i].condition]

\* C13: an updateWithEvidence call with evidence that has no table entry for
\* any tracked condition leaves the stored posterior of every tracked
\* condition equal to its value before the call
C13_UnknownEvidenceNeutral ==
    [][\A evidence \in EvidenceSet :
          (UpdateCall(evidence) /\ UnknownEvidence(diagnoses, evidence)) =>
             /\ Len(diagnoses') = Len(diagnoses)
             /\ \A i \in 1..Len(diagnoses) :
                   diagnoses'[i].posteriorProbability = diagnoses[i].posteriorProbability]_vars

\* C14: a calculateInformationGain call leaves the store as it was: the same
\* tracked conditions in the same order, each with the same posterior,
\* cumulative likelihood and evidence log
C14_InformationGainPure ==
    [][\A e \in PotentialEvidence :
          GainCall(e) =>
             /\ Len(diagnoses') = Len(diagnoses)
             /\ \A i \in 1..Len(diagnoses) :
                   /\ diagnoses'[i].condition = diagnoses[i].condition
                   /\ diagnoses'[i].posteriorProbability = diagnoses[i].posteriorProbability
                   /\ diagnoses'[i].likelihood = diagnoses[i].likelihood
                   /\ diagnoses'[i].evidence = diagnoses[i].evidence]_vars

\* an information gain has been computed on a store that evidence had updated,
\* and at least one hypothetical posterior differs from the stored one
C14_Witness ==
    /\ hypothetical # <<>>
    /\ diagnoses # <<>>
    /\ Len(hypothetical[1]) = Len(diagnoses)
    /\ \E i \in 1..Len(diagnoses) :
          /\ Len(diagnoses[i].evidence) > 0
          /\ hypothetical[1][i].oldProbability = diagnoses[i].posteriorProbability
          /\ hypothetical[1][i].newProbability # diagnoses[i].posteriorProbability

\* C15: after a reset call getRankedDiagnoses returns the empty sequence and
\* getDiagnosis returns nothing for every condition, whatever calls came before
C15_ResetEmpties ==
    [][reset =>
          /\ getRankedDiagnoses(diagnoses') = <<>>
          /\ \A condition \in Conditions : getDiagnosis(diagnoses', condition) = {}]_vars

\* the store is empty after conditions were tracked and updated with evidence
C15_Witness ==
    /\ diagnoses = <<>>
    /\ updates # <<>>
    /\ calls >= 3
    /\ getRankedDiagnoses(diagnoses) = <<>>

\* what each case state yields on an engine that tracks nothing
FreshAnalysis == [s \in AnalysisStates |-> Analysis(<<>>, <<>>, s).store]

FreshReport == [s \in AnalysisStates |-> AnalysisReport(FreshAnalysis[s])]

\* C16: an analysis starts from an empty store: whatever the store held when
\* prepareBayesianAnalysis was called, the store it leaves and the posteriors
\* it reports are those the same case state yields on an empty store
C16_AnalysisFromEmptyStore ==
    [][\A s \in AnalysisStates :
          prepareBayesianAnalysis(s) =>
             /\ diagnoses' = FreshAnalysis[s]
             /\ AnalysisReport(diagnoses') = FreshReport[s]]_vars

\* an analysis was written on an engine that tracked other conditions before:
\* the last updateWithEvidence call, made by an earlier analysis, reported on
\* conditions the store no longer holds
C16_Witness ==
    /\ updates # <<>>
    /\ diagnoses # <<>>
    /\ \A i \in 1..Len(diagnoses) : diagnoses[i].condition = "unstable_angina"
    /\ \A i \in 1..Len(updates) : updates[i].diagnosis # "unstable_angina"
    /\ \E s \in AnalysisStates : diagnoses = FreshAnalysis[s]

\* C17: an updateWithEvidence call returns one record per tracked condition,
\* in the order of the store, and appends the evidence once to the log of
\* every tracked condition, so that a log holds the evidence of the calls made
\* since the condition was initialized, in the order of the calls
C17_OneRecordOneLogEntry ==
    [][\A evidence \in EvidenceSet :
          UpdateCall(evidence) =>
             /\ Len(updates') = Len(diagnoses)
             /\ Len(diagnoses') = Len(diagnoses)
             /\ \A i, j \in 1..Len(diagnoses) :
                   i # j => diagnoses[i].condition # diagnoses[j].condition
             /\ \A i \in 1..Len(diagnoses) :
                   /\ updates'[i].diagnosis = diagnoses[i].condition
                   /\ updates'[i].evidence = evidence
                   /\ diagnoses'[i].condition = diagnoses[i].condition
                   /\ diagnoses'[i].evidence = Append(diagnoses[i].evidence, evidence)]_vars

\* two calls with different evidence were made on a condition, and one call on
\* a condition initialized between them: the logs hold the evidence in call order
C17_Witness ==
    /\ Len(diagnoses) = 2
    /\ Len(updates) = 2
    /\ Len(diagnoses[1].evidence) = 2
    /\ diagnoses[1].evidence[1] # diagnoses[1].evidence[2]
    /\ diagnoses[2].evidence = <<diagnoses[1].evidence[2]>>
    /\ updates[1].evidence = diagnoses[1].evidence[2]

RECURSIVE AdjustedRatioProduct(_, _)
\* the product of the ratios the calls reported for the condition, in call order
AdjustedRatioProduct(condition, log) ==
    IF log = <<>> THEN One
    ELSE RMul(AdjustedRatioProduct(condition, SubSeq(log, 1, Len(log) - 1)),
              calculateLikelihoodRatio(condition, log[Len(log)]))

\* C18: the cumulative likelihood of a tracked condition is the product of the
\* adjusted likelihood ratios of the evidence applied since it was initialized,
\* 1 when there is none, whether or not a posterior was clamped or rescaled
C18_LikelihoodIsProduct ==
    \A i \in 1..Len(diagnoses) :
       diagnoses[i].likelihood =
          AdjustedRatioProduct(diagnoses[i].condition, diagnoses[i].evidence)

\* the posteriors were rescaled by the last call and a cumulative likelihood
\* is the ratio of that call, not the ratio of the stored odds to the prior odds
C18_Witness ==
    /\ Len(diagnoses) >= 2
    /\ SumPosterior(diagnoses) = Headroom
    /\ \E i \in 1..Len(diagnoses) :
          /\ Len(diagnoses[i].evidence) = 1
          /\ diagnoses[i].likelihood # One
          /\ diagnoses[i].likelihood = updates[i].likelihoodRatio
          /\ diagnoses[i].posteriorProbability # updates[i].newProbability

\* C19: for a tracked condition with posterior p, 0 < p < 1, the newProbability
\* an updateWithEvidence call reports is adj * p / (1 - p + adj * p) clamped to
\* [0.001, 0.999], with adj = 1 + (ratio - 1) * confidence and ratio the table
\* entry, 1 when there is none; for p = 0.02, ratio 20 and confidence 0.95 it
\* is 381/1361, about 0.2799
C19_ReportedProbability ==
    [][\A evidence \in EvidenceSet :
          UpdateCall(evidence) =>
             \A i \in 1..Len(diagnoses) :
                LET p == diagnoses[i].posteriorProbability
                    ratio == BaseRatio(diagnoses[i].condition, evidence)
                    adj == RAdd(One, RMul(RSub(ratio, One), evidence.confidence))
                    direct == RDiv(RMul(adj, p), RAdd(RSub(One, p), RMul(adj, p)))
                    reported == updates'[i].newProbability
                IN  (RLess(Zero, p) /\ RLess(p, One) /\ direct # NaR) =>
                       /\ updates'[i].oldProbability = p
                       /\ updates'[i].likelihoodRatio = adj
                       /\ reported = Clamp(direct)
                       /\ (p = <<1, 50>> /\ ratio = <<20, 1>>
                           /\ evidence.confidence = <<19, 20>>) =>
                             /\ reported = <<381, 1361>>
                             /\ RLeq(<<2799, 10000>>, reported)
                             /\ RLess(reported, <<28, 100>>)]_vars

\* the last call applied elevated troponin with confidence 0.95 to myocardial
\* infarction at 0.02 and reported 381/1361
C19_Witness ==
    \E i \in 1..Len(updates) :
       /\ updates[i].diagnosis = "myocardial_infarction"
       /\ updates[i].oldProbability = <<1, 50>>
       /\ updates[i].evidence = Evidence("troponin_elevated", TRUE, <<19, 20>>)
       /\ updates[i].likelihoodRatio = <<381, 20>>
       /\ updates[i].newProbability = <<381, 1361>>
       /\ Len(diagnoses) = Len(updates)

\* the store after initializeDiagnosis(condition, prior) and two updates
TwoUpdates(condition, prior, first, second) ==
    UpdatedStore(UpdatedStore(<<NewDiagnosis(condition, prior)>>, first), second)

\* the two orders of applying first and second leave different posteriors
OrderDependent(condition, prior, first, second) ==
    /\ Representable(TwoUpdates(condition, prior, first, second))
    /\ Representable(TwoUpdates(condition, prior, second, first))
    /\ TwoUpdates(condition, prior, first, second)[1].posteriorProbability
          # TwoUpdates(condition, prior, second, first)[1].posteriorProbability

\* the conditions, priors and pairs of evidence whose order matters
OrderDependentInputs ==
    {q \in Conditions \X OrderPriors \X EvidenceSet \X EvidenceSet :
        OrderDependent(q[1], q[2], q[3], q[4])}

\* C20: there are a condition, a prior and two pieces of evidence such that
\* applying them in one order leaves a different stored posterior for the
\* condition than applying them in the other order, on an engine that tracks
\* that condition alone
C20_OrderMatters ==
    /\ Len(diagnoses) = 1
    /\ OrderDependentInputs # {}

\* two pieces of evidence have been applied to the only tracked condition and
\* the stored posterior is not the one the other order leaves
C20_Witness ==
    /\ Len(diagnoses) = 1
    /\ Len(diagnoses[1].evidence) = 2
    /\ diagnoses = TwoUpdates(diagnoses[1].condition, diagnoses[1].priorProbability,
                              diagnoses[1].evidence[1], diagnoses[1].evidence[2])
    /\ OrderDependent(diagnoses[1].condition, diagnoses[1].priorProbability,
                      diagnoses[1].evidence[1], diagnoses[1].evidence[2])

\* C21: getRankedDiagnoses returns every tracked condition exactly once, by
\* posterior descending, conditions of equal posterior in insertion order
C21_RankedOrder ==
    LET n == Len(diagnoses)
        ranked == Tuple(getRankedDiagnoses(diagnoses))
    IN  /\ Len(ranked) = n
        /\ \A i \in 1..n : Cardinality({k \in 1..n : ranked[k] = diagnoses[i]}) = 1
        /\ \A k \in 1..(n - 1) :
              /\ ~Below(ranked[k].posteriorProbability, ranked[k + 1].posteriorProbability)
              /\ ranked[k].posteriorProbability = ranked[k + 1].posteriorProbability =>
                    IndexOf(diagnoses, ranked[k].condition)
                       < IndexOf(diagnoses, ranked[k + 1].condition)

\* three conditions are tracked, the first inserted has the lowest posterior
\* and the other two are tied: the ranking moves the first to the end and
\* keeps the tied two in insertion order
C21_Witness ==
    /\ Len(diagnoses) = 3
    /\ Below(diagnoses[1].posteriorProbability, diagnoses[2].posteriorProbability)
    /\ diagnoses[2].posteriorProbability = diagnoses[3].posteriorProbability
    /\ getRankedDiagnoses(diagnoses) = <<diagnoses[2], diagnoses[3], diagnoses[1]>>

--------------------------------------------------------------------------
(* Properties of the debate *)

DebateContents == RoundContents \X RoundContents

\* C22: every prior the debate passes to initializeDiagnosis when it seeds the
\* store from the differential diagnoses is strictly between 0 and 1
C22_SeedPriorsInsideUnit ==
    [][\A contents \in DebateContents :
          MedicalDebateStep(contents) =>
             \A k \in 1..Len(DebateAnalysisStates(state, contents)) :
                LET priors == SeedPriors(DebateAnalysisStates(state, contents)[k])
                IN  \A i \in 1..Len(priors) :
                       Below(Zero, priors[i]) /\ Below(priors[i], One)]_vars

RoundTurns(sequence, content) ==
    [i \in 1..Len(sequence) |-> parseResponse(sequence[i], content)]

\* the sum of costAnalysis.estimatedCost over the contributions of the rounds
\* one orchestrateDebate call runs
DebateStepCost(s, contents) ==
    LET sequence == getDebateSequence(s.currentPhase)
        s1 == Assign(s, executeDebateRound(s, sequence, 0, contents[1]))
    IN  SumCost(RoundTurns(sequence, contents[1]))
        + (IF DebateMaxRounds < 2 \/ shouldTerminateDebate(s1) THEN 0
           ELSE SumCost(RoundTurns(sequence, contents[2])))

\* C24: after a medical_debate step has been merged, cumulativeCost is its
\* value before the step plus the cost estimates of the step's contributions,
\* each counted once
C24_CostCountedOnce ==
    [][\A contents \in DebateContents :
          MedicalDebateStep(contents) =>
             state'.cumulativeCost
                = Min(state.cumulativeCost + DebateStepCost(state, contents), MaxCost)]_vars

\* C25: in every reachable case state confidenceLevel lies in [0, 1]
C25_ConfidenceInUnit ==
    state.confidenceLevel >= 0 /\ state.confidenceLevel <= 100

\* the list names the conditions of the store, in its ranking order, each with
\* the store's posterior as a percentage
ProjectionOf(differentialDiagnoses, ds) ==
    LET ranked == Tuple(getRankedDiagnoses(ds))
    IN  /\ Len(differentialDiagnoses) = Len(ranked)
        /\ \A i \in 1..Len(ranked) :
              /\ ConditionKey[differentialDiagnoses[i].condition] = ranked[i].condition
              /\ Rat(differentialDiagnoses[i].probability, 100) = ranked[i].posteriorProbability

\* C26: after a debate step, differentialDiagnoses holds exactly the conditions
\* of the hypothesis agent's store, with the store's posteriors, in its ranking order
C26_DiagnosesProjectStore ==
    [][(pc = "medical_debate" /\ ~aborted') =>
          ProjectionOf(state'.differentialDiagnoses, diagnoses')]_vars

\* C27: the length of agentTurns stays under a fixed cap: it never reaches
\* MaxTurnCount, the largest length the state keeps count of
C27_TurnsBounded == state.agentTurns.count < MaxTurnCount

--------------------------------------------------------------------------
(* The debate step on its own, applied to case states handed to the graph *)

\* case states in front of medical_debate: the interview floor met or not, the
\* essential information gathered, in the phases whose sequences differ, with
\* the list, confidence and cost an earlier debate step may have left
DebateStates ==
    {[InitialState EXCEPT
         !.messages = [count |-> 1, last |-> "text"],
         !.availableCaseInfo = CompleteCaseInfo,
         !.requiredInformationGathered = AllGathered,
         !.interactionRound = round,
         !.currentPhase = phase,
         !.differentialDiagnoses = differentialDiagnoses,
         !.finalDiagnosis = differentialDiagnoses,
         !.confidenceLevel = IF differentialDiagnoses = <<>> THEN 0
                             ELSE differentialDiagnoses[1].probability,
         !.readyForDiagnosis = differentialDiagnoses # <<>>
                               /\ differentialDiagnoses[1].probability
                                     >= DebateConfidenceThreshold,
         !.cumulativeCost = cost] :
       round \in {0, InteractionFloor},
       phase \in {"information_gathering", "test_selection", "deliberation"},
       differentialDiagnoses \in {<<>>, MI(70), MI(90)},
       cost \in {0, 500, DefaultBudget}}

DebateRouteInit ==
    /\ diagnoses = <<>>
    /\ updates = <<>>
    /\ hypothetical = <<>>
    /\ recommendations = <<>>
    /\ calls = 0
    /\ state \in DebateStates
    /\ pc = "medical_debate"
    /\ aborted = FALSE

DebateRouteNext == \E c1, c2 \in RoundContents : MedicalDebateStep(<<c1, c2>>)

DebateRouteSpec == DebateRouteInit /\ [][DebateRouteNext]_vars

\* the contributions of the last round one orchestrateDebate call runs
LastRoundTurns(s, contents) ==
    LET sequence == getDebateSequence(s.currentPhase)
        s1 == Assign(s, executeDebateRound(s, sequence, 0, contents[1]))
    IN  IF DebateMaxRounds < 2 \/ shouldTerminateDebate(s1)
        THEN RoundTurns(sequence, contents[1])
        ELSE RoundTurns(sequence, contents[2])

RequestedTests(turns) == \E i \in 1..Len(turns) : turns[i].testsRequested

\* none of the transition rules 1 to 6 applies
NoneOfFirstSix(s) ==
    \A i \in 1..6 : ~TransitionRules(s, shouldGenerateQuestions(s))[i][1]

--------------------------------------------------------------------------
(* The interview on its own: questions asked, answer processed *)

\* What gatekeeper.processUserResponse and identifyGatheredInformation make of
\* the answer: the case information and the gathered items stay as they are,
\* or the answer completes them
ResponseContents == {[completes |-> FALSE], [completes |-> TRUE]}

\* the update processUserResponse returns; both branches of its try return the
\* same fields
processUserResponse(s, content) ==
    IF s.messages.last = "none" THEN NoUpdate
    ELSE [availableCaseInfo |-> IF content.completes THEN CompleteCaseInfo
                                ELSE s.availableCaseInfo,
          requiredInformationGathered |-> IF content.completes THEN AllGathered
                                          ELSE s.requiredInformationGathered,
          pendingQuestions |-> <<>>,
          awaitingUserInput |-> FALSE,
          currentPhase |-> "information_gathering",
          messages |-> WithAIMessage(s)]

routeAfterUserResponse(s) ==
    IF shouldGenerateQuestions(s) THEN "patient_interaction" ELSE "medical_debate"

\* the caller's answer to a suspended run, handed to the node registered for it
Answer(text) ==
    /\ pc = "__end__"
    /\ state.awaitingUserInput
    /\ state' = ApplyUpdate(state, [messages |-> [count |-> 1, last |-> text]])
    /\ pc' = "process_user_response"
    /\ UNCHANGED <<aborted, engineVars, toolVars>>

ProcessUserResponseStep(content) ==
    /\ pc = "process_user_response"
    /\ state' = ApplyUpdate(state, processUserResponse(state, content))
    /\ pc' = Interrupt(routeAfterUserResponse(state'))
    /\ UNCHANGED <<aborted, engineVars, toolVars>>

\* the phases the interview is entered from
ResponsePhases == {"initial_assessment", "test_selection", "deliberation"}

\* case states in front of patient_interaction, no question pending
ResponseStates ==
    {[InitialState EXCEPT
         !.messages = [count |-> 3, last |-> "ai"],
         !.availableCaseInfo = info[1],
         !.requiredInformationGathered = info[2],
         !.interactionRound = round,
         !.currentPhase = phase,
         !.confidenceLevel = IF differentialDiagnoses = <<>> THEN 0 ELSE 70,
         !.differentialDiagnoses = differentialDiagnoses] :
       info \in {<<CompleteCaseInfo, AllGathered>>, <<FallbackCaseInfo(TRUE, FALSE), {}>>},
       round \in {0, 2, InteractionFloor},
       phase \in ResponsePhases,
       differentialDiagnoses \in {<<>>, MI(70)}}

ResponseInit ==
    /\ diagnoses = <<>>
    /\ updates = <<>>
    /\ hypothetical = <<>>
    /\ recommendations = <<>>
    /\ calls = 0
    /\ state \in ResponseStates
    /\ pc = "patient_interaction"
    /\ aborted = FALSE

ResponseNext ==
    \/ \E content \in QuestionContents : PatientInteractionStep(content)
    \/ \E text \in HumanTexts : Answer(text)
    \/ \E content \in ResponseContents : ProcessUserResponseStep(content)

ResponseSpec == ResponseInit /\ [][ResponseNext]_vars

DeliberationOrder == <<"hypothesis", "challenger", "stewardship", "checklist">>

\* C30: in each round of a debate step the roles are called one after another
\* in the order fixed for the phase (for deliberation: hypothesis, challenger,
\* stewardship, checklist), each call briefed with the contributions recorded
\* before it in the same round, and the contributions are stored in that order
C30_RolesInOrder ==
    [][\A contents \in DebateContents :
          MedicalDebateStep(contents) =>
             LET order == getDebateSequence(state.currentPhase)
                 oracleCalls == DebateCalls(state, contents)
             IN  /\ state.currentPhase = "deliberation" => order = DeliberationOrder
                 /\ \A k \in 1..Len(oracleCalls) :
                       /\ Len(oracleCalls[k]) = Len(order)
                       /\ \A i \in 1..Len(order) :
                             /\ oracleCalls[k][i].role = order[i]
                             /\ oracleCalls[k][i].context.round = k
                             /\ oracleCalls[k][i].context.contributions = SubSeq(order, 1, i - 1)
                 /\ [i \in 1..Len(state'.agentTurns.recent) |->
                        state'.agentTurns.recent[i].agentRole] = LastN(order, 2)]_vars

\* a deliberation debate of two rounds has been merged: the last contributions
\* stored are the stewardship's and the checklist's
C30_Witness ==
    /\ state.debateRound = 2
    /\ Len(state.agentTurns.recent) = 2
    /\ state.agentTurns.recent[1].agentRole = "stewardship"
    /\ state.agentTurns.recent[2].agentRole = "checklist"

--------------------------------------------------------------------------
(* Properties of the synthesis and of the debate's bookkeeping *)

\* a debate step returns and its update is merged
DebateMerged == pc = "medical_debate" /\ ~aborted'

\* C31: after the synthesis has been merged, finalDiagnosis is the entry of
\* differentialDiagnoses with the greatest probability (none for an empty
\* list), confidenceLevel is that probability (0 for an empty list) and
\* readyForDiagnosis holds exactly when confidenceLevel >= 0.8
C31_SynthesisMerged ==
    [][DebateMerged =>
          LET differentialDiagnoses == state'.differentialDiagnoses
          IN  /\ \A i \in 1..Len(differentialDiagnoses) :
                    differentialDiagnoses[i].probability <= differentialDiagnoses[1].probability
              /\ state'.finalDiagnosis = Take(differentialDiagnoses, 1)
              /\ state'.confidenceLevel = (IF differentialDiagnoses = <<>> THEN 0
                                           ELSE differentialDiagnoses[1].probability)
              /\ state'.readyForDiagnosis
                    <=> state'.confidenceLevel >= DebateConfidenceThreshold]_vars

\* cumulativeCost of the state the first round is assigned to
CostAfterFirstRound(s, contents) ==
    Min(s.cumulativeCost
        + SumCost(RoundTurns(getDebateSequence(s.currentPhase), contents[1])), MaxCost)

\* C32: an orchestrateDebate call runs at least one and at most maxRounds
\* rounds, stops after the first round that leaves confidenceLevel >= 0.8,
\* cumulativeCost >= the case's budget or readyForDiagnosis set, and then runs
\* the synthesis once: the phase moves by one application of determineNextPhase
C32_RoundsThenSynthesis ==
    [][\A contents \in DebateContents :
          MedicalDebateStep(contents) =>
             LET stops == \/ state.confidenceLevel >= DebateConfidenceThreshold
                          \/ CostAfterFirstRound(state, contents) >= state.costBudget
                          \/ state.readyForDiagnosis
             IN  /\ state'.debateRound >= 1
                 /\ state'.debateRound <= DebateMaxRounds
                 /\ state'.debateRound = (IF stops THEN 1 ELSE DebateMaxRounds)
                 /\ state'.currentPhase
                       = determineNextPhase(state,
                            IF state'.differentialDiagnoses = <<>> THEN 0
                            ELSE state'.differentialDiagnoses[1].probability)]_vars

\* a debate stopped after its first round because that round's cost reached
\* the budget
C32_Witness ==
    /\ state.debateRound = 1
    /\ state.confidenceLevel < DebateConfidenceThreshold
    /\ ~state.readyForDiagnosis
    /\ state.cumulativeCost >= state.costBudget
    /\ state.currentPhase = "deliberation"

\* the order of the phases
PhaseOrder ==
    <<"case_presentation", "initial_assessment", "information_gathering",
      "test_selection", "deliberation", "final_diagnosis">>

PhaseRank(phase) == CHOOSE i \in 1..Len(PhaseOrder) : PhaseOrder[i] = phase

InOrder(phase) == \E i \in 1..Len(PhaseOrder) : PhaseOrder[i] = phase

\* the confidence the synthesis of the step computed
SynthesisConfidence ==
    IF state'.differentialDiagnoses = <<>> THEN 0
    ELSE state'.differentialDiagnoses[1].probability

\* C33: a synthesis whose confidence is below the threshold moves currentPhase
\* to its immediate successor in the order of the phases (final_diagnosis
\* stays), never backward
C33_PhaseForward ==
    [][(DebateMerged /\ InOrder(state.currentPhase)
          /\ SynthesisConfidence < DebateConfidenceThreshold)
        => state'.currentPhase
              = PhaseOrder[Min(PhaseRank(state.currentPhase) + 1, Len(PhaseOrder))]]_vars

\* C33 (amended): below the threshold the phase moves to its immediate
\* successor from the phases before deliberation; from deliberation it moves
\* to final_diagnosis when the confidence exceeds 0.6 and back to
\* information_gathering otherwise; from any other phase to final_diagnosis
C33_PhaseStep ==
    [][(DebateMerged /\ SynthesisConfidence < DebateConfidenceThreshold)
        => state'.currentPhase
              = (IF InOrder(state.currentPhase)
                    /\ PhaseRank(state.currentPhase) < PhaseRank("deliberation")
                 THEN PhaseOrder[PhaseRank(state.currentPhase) + 1]
                 ELSE IF state.currentPhase = "deliberation"
                         /\ SynthesisConfidence <= DeliberationExit
                 THEN "information_gathering"
                 ELSE "final_diagnosis")]_vars

\* a debate in the deliberation phase (its last contributions are the
\* stewardship's and the checklist's) has sent the case back to
\* information_gathering
C33_Witness ==
    /\ state.currentPhase = "information_gathering"
    /\ state.debateRound >= 1
    /\ Len(state.agentTurns.recent) = 2
    /\ state.agentTurns.recent[1].agentRole = "stewardship"
    /\ state.agentTurns.recent[2].agentRole = "checklist"


--------------------------------------------------------------------------
(* The diagnostic test selector on its own *)

\* MEDICAL_KNOWLEDGE_BASE.conditions[key].tests
KnowledgeBaseTests ==
    ("myocardial_infarction" :> <<"ECG", "troponin", "chest x-ray", "echocardiogram">>)
    @@ ("pneumonia" :> <<"chest x-ray", "CBC", "blood culture", "sputum culture">>)
    @@ ("gastroenteritis" :> <<"stool culture", "CBC", "basic metabolic panel">>)

\* MEDICAL_KNOWLEDGE_BASE.diagnosticTests[key].cost
KnowledgeBaseCost ==
    ("ECG" :> 50) @@ ("troponin" :> 75) @@ ("chest_xray" :> 150)
    @@ ("cbc" :> 25) @@ ("bmp" :> 30)

\* name.toLowerCase().replace(/\s+/g, '_') on the names the tool meets
KnowledgeBaseKey ==
    ("Myocardial Infarction" :> "myocardial_infarction")
    @@ ("pneumonia" :> "pneumonia")
    @@ ("Gastroenteritis" :> "gastroenteritis")
    @@ ("Unstable Angina" :> "unstable_angina")
    @@ ("ECG" :> "ecg")
    @@ ("troponin" :> "troponin")
    @@ ("chest x-ray" :> "chest_x-ray")
    @@ ("echocardiogram" :> "echocardiogram")
    @@ ("CBC" :> "cbc")
    @@ ("blood culture" :> "blood_culture")
    @@ ("sputum culture" :> "sputum_culture")
    @@ ("stool culture" :> "stool_culture")
    @@ ("basic metabolic panel" :> "basic_metabolic_panel")

DefaultTestCost == 100

\* testInfo?.cost || 100
TestCost(test) ==
    IF KnowledgeBaseKey[test] \in DOMAIN KnowledgeBaseCost
    THEN KnowledgeBaseCost[KnowledgeBaseKey[test]]
    ELSE DefaultTestCost

\* the value the tool's func returns, before JSON.stringify; SelectSeq is
\* Array.prototype.filter
diagnosticTestSelector(differentialDiagnoses, maxCost) ==
    LET known(diagnosis) == KnowledgeBaseKey[diagnosis] \in DOMAIN KnowledgeBaseTests
        tests(diagnosis) ==
            LET names == KnowledgeBaseTests[KnowledgeBaseKey[diagnosis]]
            IN  [i \in 1..Len(names) |-> [test |-> names[i], cost |-> TestCost(names[i])]]
        fits(t) == maxCost = 0 \/ t.cost <= maxCost
        recommendation(diagnosis) ==
            [diagnosis |-> diagnosis,
             recommendedTests |-> SelectSeq(tests(diagnosis), fits)]
        listed == SelectSeq(differentialDiagnoses, known)
    IN  [i \in 1..Len(listed) |-> recommendation(listed[i])]

\* one call of the tool
diagnosticTestSelectorTool(differentialDiagnoses, maxCost) ==
    /\ recommendations' = [differentialDiagnoses |-> differentialDiagnoses,
                           maxCost |-> maxCost,
                           output |-> diagnosticTestSelector(differentialDiagnoses, maxCost)]
    /\ UNCHANGED <<engineVars, workflowVars>>

ToolDiagnoses == {"Myocardial Infarction", "pneumonia", "Gastroenteritis", "Unstable Angina"}

\* the lists of candidate diagnoses handed to the tool
ToolDiagnosisLists ==
    {<<>>} \cup {<<a>> : a \in ToolDiagnoses}
           \cup {<<a, b>> : a \in ToolDiagnoses, b \in ToolDiagnoses}

\* costBudget - cumulativeCost for the totals a case can hold, and the costs of
\* the knowledge base around them
ToolMaxCosts ==
    {DefaultBudget - cost : cost \in {0, 500, DefaultBudget}}
    \cup {TestCost(test) : test \in {"troponin", "CBC", "ECG"}}
    \cup {TestCost(test) - 1 : test \in {"troponin", "CBC", "ECG"}}

ToolNext ==
    \E differentialDiagnoses \in ToolDiagnosisLists, maxCost \in ToolMaxCosts :
        diagnosticTestSelectorTool(differentialDiagnoses, maxCost)

ToolSpec == Init /\ [][ToolNext]_vars

\* C34: no test the diagnostic_test_selector tool returns costs more than the
\* maxCost of the call, for every maxCost >= 0, 0 included
C34_TestsWithinMaxCost ==
    recommendations # <<>>
        => \A i \in 1..Len(recommendations.output) :
             \A j \in 1..Len(recommendations.output[i].recommendedTests) :
                recommendations.output[i].recommendedTests[j].cost
                    <= recommendations.maxCost


--------------------------------------------------------------------------
(* Properties of the update records and of the information gain *)

\* C35: for every record an updateWithEvidence call returns, newProbability is
\* the posteriorProbability getDiagnosis reports for the record's condition
\* right after the call
C35_RecordMatchesStore ==
    [][\A evidence \in EvidenceSet :
          UpdateCall(evidence) =>
             \A i \in 1..Len(updates') :
                \A d \in getDiagnosis(diagnoses', updates'[i].diagnosis) :
                   updates'[i].newProbability = d.posteriorProbability]_vars


\* C36: debateRound is the total number of debate rounds run so far in the
\* case, and so no medical_debate step leaves it smaller than it found it
C36_DebateRoundGrows ==
    [][DebateMerged => state'.debateRound >= state.debateRound]_vars


\* C37: after a medical_debate step has been merged, messages holds the
\* messages it held before and the step's new messages (one for each round and
\* one for the synthesis), each once, and agentTurns holds the contributions it
\* held before and the step's contributions, each once
C37_MergedOnce ==
    [][\A contents \in DebateContents :
          MedicalDebateStep(contents) =>
             /\ state'.messages.count
                   = Min(state.messages.count + RoundsRun(state, contents) + 1, MaxMessages)
             /\ state'.agentTurns.count
                   = Min(state.agentTurns.count
                           + RoundsRun(state, contents)
                               * Len(getDebateSequence(state.currentPhase)),
                         MaxTurnCount)]_vars


--------------------------------------------------------------------------
(* One invocation of the graph on its own *)

\* an invocation at its first node after initialize_case, or resumed in front
\* of patient_interaction
InvocationInit ==
    /\ diagnoses = <<>>
    /\ updates = <<>>
    /\ hypothetical = <<>>
    /\ recommendations = <<>>
    /\ calls = 0
    /\ state \in DebateStates
    /\ pc \in {"medical_debate", "patient_interaction"}
    /\ aborted = FALSE

\* the nodes an invocation runs; every oracle call returns.  No debate step
\* ends with a contribution of the test chooser, so the routing never names
\* diagnostic_tools
InvocationNext ==
    \/ \E c1, c2 \in RoundContents : MedicalDebateStep(<<c1, c2>>)
    \/ \E content \in QuestionContents : PatientInteractionStep(content)
    \/ FinalAssessmentStep

\* the graph runs the next node as long as there is one
InvocationSpec == InvocationInit /\ [][InvocationNext]_vars /\ WF_vars(InvocationNext)

\* the invocation has returned to the caller
InvocationEnded == pc \in {"interrupted", "__end__"}

\* C38 as stated: every invocation runs finitely many nodes and then ends at
\* __end__, which patient_interaction reaches with questions pending and
\* final_assessment reaches always
C38_EndsSuspendedOrFinal == <>(pc = "__end__")

\* C38: every invocation runs finitely many nodes and then ends, at the pause
\* in front of patient_interaction or at __end__
C38_InvocationEnds == <>InvocationEnded

\* an invocation has ended after final_assessment, with a debate before it
C38_Witness ==
    /\ pc = "__end__"
    /\ state.currentPhase = "final_diagnosis"
    /\ state.debateRound >= 1
    /\ Len(state.pendingQuestions) = 0


--------------------------------------------------------------------------
(* Properties of the phase *)

\* C39: once currentPhase is final_diagnosis, every later step of the main
\* workflow leaves it final_diagnosis
C39_FinalPhaseStays ==
    [][state.currentPhase = "final_diagnosis" => state'.currentPhase = "final_diagnosis"]_vars


--------------------------------------------------------------------------
(* The information gain on its own *)

\* priors offered to initializeDiagnosis, all inside (0, 1); the smallest lies
\* below the lower end of the clamp
GainPriors == Priors \cup {<<1, 2000>>}

\* the stores one or two initializeDiagnosis calls leave
GainStores ==
    {<<NewDiagnosis(c, p)>> : c \in Conditions, p \in GainPriors}
    \cup {store \in {<<NewDiagnosis(c1, p1), NewDiagnosis(c2, p2)>> :
                        c1 \in Conditions, c2 \in Conditions,
                        p1 \in GainPriors, p2 \in GainPriors} :
             store[1].condition # store[2].condition}

GainInit ==
    /\ diagnoses \in GainStores
    /\ updates = <<>>
    /\ hypothetical = <<>>
    /\ recommendations = <<>>
    /\ calls = Len(diagnoses)
    /\ state = InitialState
    /\ pc = "__start__"
    /\ aborted = FALSE

GainNext ==
    \/ \E e \in EvidenceSet : updateWithEvidence(e)
    \/ \E e \in PotentialEvidence : calculateInformationGain(e)

GainSpec == GainInit /\ [][GainNext]_vars

\* probabilities, largest first
SortedDescending(ps) ==
    LET n == Len(ps)
        rank(i) == 1 + Cardinality({j \in 1..n :
                          Below(ps[i], ps[j]) \/ (ps[j] = ps[i] /\ j < i)})
    IN  [k \in 1..n |-> ps[CHOOSE i \in 1..n : rank(i) = k]]

RECURSIVE PartialSum(_, _)
PartialSum(ps, k) == IF k = 0 THEN Zero ELSE RAdd(PartialSum(ps, k - 1), ps[k])

\* the share of the k largest of ps in the total of ps is at least (above, when
\* strict) the share of the k largest of qs in the total of qs
LargerShare(ps, qs, k, strict) ==
    LET mine == RMul(PartialSum(SortedDescending(ps), k), PartialSum(qs, Len(qs)))
        theirs == RMul(PartialSum(SortedDescending(qs), k), PartialSum(ps, Len(ps)))
    IN  /\ mine # NaR
        /\ theirs # NaR
        /\ Comparable(theirs, mine)
        /\ IF strict THEN RLess(theirs, mine) ELSE RLeq(theirs, mine)

\* ps, divided by its total, majorizes qs, divided by its total, and is no
\* rearrangement of it
StrictlyMajorizes(ps, qs) ==
    /\ Len(ps) = Len(qs)
    /\ \A k \in 1..Len(ps) : LargerShare(ps, qs, k, FALSE)
    /\ \E k \in 1..Len(ps) : LargerShare(ps, qs, k, TRUE)

\* calculateEntropy and calculateEntropyFromUpdates return different numbers:
\* the entropy -sum (p/total) log2 (p/total) is strictly Schur-concave, so of
\* two distributions the one that strictly majorizes the other has the smaller
\* entropy
EntropyDiffers(ps, qs) == StrictlyMajorizes(ps, qs) \/ StrictlyMajorizes(qs, ps)

StoredPosteriors == [i \in 1..Len(diagnoses) |-> diagnoses[i].posteriorProbability]

HypotheticalPosteriors(k) ==
    [i \in 1..Len(hypothetical[k]) |-> hypothetical[k][i].newProbability]

\* an information gain has just been computed for evidence neither of whose
\* outcome keys is in the table of a tracked condition
UnknownGainComputed ==
    /\ hypothetical # <<>>
    /\ diagnoses # <<>>
    /\ \A k \in 1..2 : UnknownEvidence(diagnoses, hypothetical[k][1].evidence)

\* C40: for candidate evidence without a table entry for any tracked condition
\* calculateInformationGain returns exactly 0: the entropy of the hypothetical
\* posteriors of each outcome is the entropy of the stored posteriors
C40_UnknownEvidenceNoGain ==
    UnknownGainComputed =>
        ~(/\ HypotheticalPosteriors(1) = HypotheticalPosteriors(2)
          /\ EntropyDiffers(StoredPosteriors, HypotheticalPosteriors(1)))

====
